---- MODULE Spec2Model ----
(***************************************************************************)
(* Calendar synchronisation engine of cal-sync.                            *)
(*                                                                         *)
(* Two calendars "A" and "B" live in a remote calendar store.  Two sync    *)
(* configurations form a bidirectional pair: c1 copies A to B, c2 copies   *)
(* B to A.  A run of sync_calendars is modelled step by step: the task is  *)
(* created (trigger_sync / scheduled_sync_job), the source list is         *)
(* fetched, the destination list is fetched and indexed, each source       *)
(* event is processed (with every remote call the loop body makes), and    *)
(* the session is committed and the run record updated (run_sync_task).    *)
(*                                                                         *)
(* Fields the engine writes but never reads (sync_cluster_id,              *)
(* last_sync_timestamp, dest_event_id and origin_event_id of the shared    *)
(* properties, content_hash and last_synced_at of a mapping row) carry     *)
(* fresh uuids or wall-clock values and are left out.  Timestamps are a    *)
(* logical clock that the remote store advances on every mutation.         *)
(*                                                                         *)
(* Every event lies inside the lookahead window; destination_color_id is   *)
(* not set; the remote store returns an event's fields as they were sent;  *)
(* a task's session flushes only at commit (autoflush off, as the session  *)
(* factory of tests/conftest.py line 122); a calendar may hold an event    *)
(* before the first run.                                                   *)
(***************************************************************************)
EXTENDS Integers, Sequences, FiniteSets, TLC

VARIABLES
    events,      \* remote calendar store: sequence of events, id = index
    clock,       \* remote store's logical time (next "updated" value)
    mappings,    \* committed rows of table event_mappings
    privacy,     \* privacy_mode_enabled of each sync configuration
    run,         \* one task record per task slot
    edits,       \* number of user operations so far
    faults,      \* number of remote failures injected so far
    started,     \* number of runs started so far
    hist,        \* history of finished runs and user operations (observer)
    tokens,      \* account types with a stored OAuth token (oauth_tokens)
    refused,     \* number of trigger requests answered 400 so far
    config,      \* table sync_configs: the fields the scheduling reads
    jobs,        \* the scheduler's job store: job sync_<id> of each id
    running      \* SyncScheduler._running

admin == <<tokens, refused, config, jobs, running>>

vars == <<events, clock, mappings, privacy, run, edits, faults, started, hist,
          tokens, refused, config, jobs, running>>

(***************************************************************************)
(* Bounds of the model.                                                    *)
(***************************************************************************)
MaxEdits == 2        \* user operations in a behaviour of Spec
MaxFaults == 1       \* remote failures in a behaviour of Spec
MaxRuns == 2         \* runs started in a behaviour of Spec
LifeEdits == 2       \* user operations in a behaviour of SpecLifecycle
LifeRuns == 4        \* runs started in a behaviour of SpecLifecycle
OriginEdits == 3     \* user operations in a behaviour of SpecOrigin
OriginRuns == 2      \* runs started in a behaviour of SpecOrigin
ConcEdits == 1       \* user operations in a behaviour of SpecConc
ConcRuns == 3        \* runs started in a behaviour of SpecConc
PairEdits == 2       \* user operations in a behaviour of SpecPair
PairRuns == 2        \* runs started in a behaviour of SpecPair
CredEdits == 1       \* user operations in a behaviour of SpecCreds
CredRuns == 3        \* runs and refused fires in a behaviour of SpecCreds
CredOps == 2         \* refused trigger requests in a behaviour of SpecCreds
OrderEdits == 2      \* user operations that set up a behaviour of SpecOrder
OrderRuns == 1       \* runs that set up a behaviour of SpecOrder
MetaEdits == 3       \* user operations in a behaviour of SpecMeta
MetaRuns == 3        \* runs started in a behaviour of SpecMeta
JobOps == 3
StoreOps == 3
TimeSteps == 50
RotateOps == 2
RotateRuns == 2
PairingOps == 4
CopyEdits == 3
CopyRuns == 3
ConflictEdits == 3
ConflictRuns == 3
KeptEdits == 3
KeptRuns == 3          \* add_job and remove_job calls in a behaviour of SpecJobs

(***************************************************************************)
(* Values.                                                                 *)
(***************************************************************************)
None == "none"                      \* Python None / absent key
NoId == 0                           \* absent event id (event ids start at 1)
Cals == {"A", "B"}
Configs == {"c1", "c2"}
Kinds == {"manual", "scheduled"}
Slots == Configs \X Kinds

SourceCal(c) == IF c = "c1" THEN "A" ELSE "B"
DestCal(c) == IF c = "c1" THEN "B" ELSE "A"
PairedConfig(c) == IF c = "c1" THEN "c2" ELSE "c1"
PlaceholderText(c) == "Busy"

AccountTypes == {"source", "destination"}

\* Cron expressions: two of 5 fields, which both croniter and
\* CronTrigger.from_crontab accept; one of 6 fields (with seconds), which
\* croniter accepts and from_crontab refuses ("Wrong number of fields");
\* the empty string; one that neither accepts.
Hourly == "0 * * * *"
Daily == "0 3 * * *"
WithSeconds == "0 * * * * *"
Empty == ""
Bogus == "every hour"
Crons == {Hourly, Daily, WithSeconds, Empty, Bogus}

\* IANA timezones, and a name pytz does not know.
UnknownTz == "Mars/Phobos"
Tzs == {"UTC", "Europe/Berlin", UnknownTz}

\* bool(v) of an Optional[str].
Truthy(v) == v # None /\ v # Empty

\* croniter(cron_expr) does not raise.
validate_cron_expression(cron_expr) == cron_expr \in {Hourly, Daily, WithSeconds}

\* pytz.timezone(timezone_str) does not raise.
validate_timezone_any(timezone_str) == timezone_str \in Tzs

validate_timezone(timezone_str) == timezone_str \in Tzs \ {UnknownTz}

\* CronTrigger.from_crontab(cron_expr) does not raise.
from_crontab == {Hourly, Daily}

OtherCal(cal) == IF cal = "A" THEN "B" ELSE "A"
Rename(s) == IF s = "Standup" THEN "Standup (moved)" ELSE "Standup"
Retitle(s) == IF s = "Lunch" THEN "Lunch (late)" ELSE "Lunch"

\* comparable_keys of events_differ
comparable_keys ==
    {"summary", "description", "location", "start", "end", "recurrence",
     "transparency", "visibility", "colorId", "reminders"}

\* An event as a user authors it in calendar cal.
NativeEvent(id, cal, origin, now) ==
    [id |-> id, cal |-> cal, status |-> "confirmed",
     summary |-> "Standup", description |-> "agenda", location |-> "HQ",
     start |-> IF cal = "A" THEN 10 ELSE 14,
     end |-> IF cal = "A" THEN 11 ELSE 15, recurrence |-> None, transparency |-> None,
     visibility |-> None, colorId |-> None, reminders |-> "useDefault",
     attendees |-> "team", updated |-> now,
     source_id |-> NoId, synced_by_system |-> None,
     origin_calendar_id |-> origin, sync_config_id |-> None,
     privacy_mode |-> None, custom |-> None]

(***************************************************************************)
(* Event Transform: pure functions of sync_engine.py.                      *)
(***************************************************************************)

\* Variant of build_payload_from_source whose privacy branch keeps the
\* source's location.
build_payload_keeps_location(src, origin, c, privacy_mode_enabled) ==
    [summary |-> IF privacy_mode_enabled THEN PlaceholderText(c) ELSE src.summary,
     description |-> IF privacy_mode_enabled THEN "" ELSE src.description,
     location |-> src.location,
     start |-> src.start,
     end |-> src.end,
     recurrence |-> src.recurrence,
     transparency |-> src.transparency,
     visibility |-> src.visibility,
     colorId |-> src.colorId,
     reminders |-> "noDefault",
     attendees |-> None,
     source_id |-> src.id,
     synced_by_system |-> "true",
     origin_calendar_id |-> origin,
     sync_config_id |-> c,
     privacy_mode |-> IF privacy_mode_enabled THEN "true" ELSE None]

\* build_payload_from_source: the body sent to insert and update.  Keys whose
\* value is None are dropped by line 98; a dropped key reads back as None.
build_payload_from_source(src, origin, c, privacy_mode_enabled) ==
    [summary |-> IF privacy_mode_enabled THEN PlaceholderText(c) ELSE src.summary,
     description |-> IF privacy_mode_enabled THEN "" ELSE src.description,
     location |-> IF privacy_mode_enabled THEN "" ELSE src.location,
     start |-> src.start,
     end |-> src.end,
     recurrence |-> src.recurrence,
     transparency |-> src.transparency,
     visibility |-> src.visibility,
     colorId |-> src.colorId,
     reminders |-> "noDefault",
     attendees |-> None,
     source_id |-> src.id,
     synced_by_system |-> "true",
     origin_calendar_id |-> origin,
     sync_config_id |-> c,
     privacy_mode |-> IF privacy_mode_enabled THEN "true" ELSE None]

\* Variants of events_differ: one that also compares the two events' ids
\* (which never agree), one that never reports a difference.
events_differ_ids(src_body, dest_event) ==
    \/ \E key \in comparable_keys : src_body[key] # dest_event[key]
    \/ src_body.source_id # dest_event.id

events_differ_never(src_body, dest_event) ==
    /\ \E key \in comparable_keys : src_body[key] # dest_event[key]
    /\ src_body.source_id = dest_event.id

\* events_differ: some comparable key differs.
events_differ(src_body, dest_event) ==
    \E key \in comparable_keys : src_body[key] # dest_event[key]

\* Variant of should_skip_event that looks for the sentinel under a key the
\* payload never sets.
should_skip_event_wrong_key(event) == event.privacy_mode = "synced"

\* should_skip_event: the loop-prevention sentinel.
should_skip_event(event) == event.synced_by_system = "true"

\* get_origin_calendar_id: mapping's origin, else the event's own, else source.
get_origin_calendar_id_dest(event, mapping, source_calendar_id) ==
    IF mapping.sync_config_id # None /\ mapping.origin_calendar_id # None
    THEN mapping.origin_calendar_id
    ELSE IF event.origin_calendar_id # None
         THEN event.origin_calendar_id
         ELSE OtherCal(source_calendar_id)

get_origin_calendar_id(event, mapping, source_calendar_id) ==
    IF mapping.sync_config_id # None /\ mapping.origin_calendar_id # None
    THEN mapping.origin_calendar_id
    ELSE IF event.origin_calendar_id # None
         THEN event.origin_calendar_id
         ELSE source_calendar_id

\* resolve_conflict: origin wins.
resolve_conflict(mapping, source_calendar_id) ==
    IF mapping.origin_calendar_id = source_calendar_id
    THEN "source_wins"
    ELSE "dest_wins"

(***************************************************************************)
(* Calendar Data Port: the remote store as the engine uses it.             *)
(***************************************************************************)

\* fetch_events: every event of the calendar, cancelled ones included
\* (showDeleted=True), in the store's order.
fetch_events(cal) == SelectSeq(events, LAMBDA e : e.cal = cal)

\* events().insert(): the store assigns id and updated.
Inserted_elsewhere(cal, body) ==
    [id |-> Len(events) + 1, cal |-> OtherCal(cal), status |-> "confirmed",
     summary |-> body.summary, description |-> body.description,
     location |-> body.location, start |-> body.start, end |-> body.end,
     recurrence |-> body.recurrence, transparency |-> body.transparency,
     visibility |-> body.visibility, colorId |-> body.colorId,
     reminders |-> body.reminders, attendees |-> body.attendees,
     updated |-> clock,
     source_id |-> body.source_id, synced_by_system |-> body.synced_by_system,
     origin_calendar_id |-> body.origin_calendar_id,
     sync_config_id |-> body.sync_config_id,
     privacy_mode |-> body.privacy_mode, custom |-> None]

Inserted(cal, body) ==
    [id |-> Len(events) + 1, cal |-> cal, status |-> "confirmed",
     summary |-> body.summary, description |-> body.description,
     location |-> body.location, start |-> body.start, end |-> body.end,
     recurrence |-> body.recurrence, transparency |-> body.transparency,
     visibility |-> body.visibility, colorId |-> body.colorId,
     reminders |-> body.reminders, attendees |-> body.attendees,
     updated |-> clock,
     source_id |-> body.source_id, synced_by_system |-> body.synced_by_system,
     origin_calendar_id |-> body.origin_calendar_id,
     sync_config_id |-> body.sync_config_id,
     privacy_mode |-> body.privacy_mode, custom |-> None]

\* events().update(): a full replacement of the event's body (PUT).
Updated(old, body) ==
    [Inserted(old.cal, body) EXCEPT !.id = old.id, !.status = old.status]

\* events().delete(): the event stays listed as cancelled.
Cancelled(old) == [old EXCEPT !.status = "cancelled", !.updated = clock]

\* The store answers 404/410 for an event that is already cancelled.
IsGone(id) == events[id].status = "cancelled"

(***************************************************************************)
(* Mapping Store: rows of event_mappings and the session of one task.      *)
(***************************************************************************)

SameKey(m, n) ==
    m.sync_config_id = n.sync_config_id /\ m.source_event_id = n.source_event_id

\* EventMapping(...) as built at lines 386-397 and 415-426.
EventMapping(c, src, result, origin, privacy_mode_enabled) ==
    [sync_config_id |-> c, source_event_id |-> src.id,
     dest_event_id |-> result.id,
     source_last_modified |-> src.updated,
     dest_last_modified |-> result.updated,
     origin_calendar_id |-> origin,
     is_privacy_mode |-> privacy_mode_enabled]

\* The result of .first() when no row matches (None).
NoMapping ==
    [sync_config_id |-> None, source_event_id |-> NoId, dest_event_id |-> NoId,
     source_last_modified |-> 0, dest_last_modified |-> 0,
     origin_calendar_id |-> None, is_privacy_mode |-> FALSE]

\* Variant of Visible in which the bulk delete of lines 293-296 is missing.
Visible_without_delete(r) ==
    {m \in mappings : m.sync_config_id \in Configs \/ r.bulk_deleted = {}}

\* Rows the task's transaction sees: committed rows minus its own bulk deletes.
Visible(r) ==
    {m \in mappings :
        ~(m.sync_config_id = r.cfg /\ m.source_event_id \in r.bulk_deleted)}

\* db.query(EventMapping).filter(...).first()
QueryMapping(r, src_id) ==
    LET found == {m \in Visible(r) :
                    m.sync_config_id = r.cfg /\ m.source_event_id = src_id}
    IN  IF found = {} THEN NoMapping ELSE CHOOSE m \in found : TRUE

\* uq_config_source: an INSERT of a second row for the same pair is refused.
\* The unit of work emits its INSERTs before its DELETEs.
UniqueOk(r) ==
    /\ \A n \in r.new_rows : \A m \in Visible(r) : ~SameKey(m, n)
    /\ \A n1 \in r.new_rows : \A n2 \in r.new_rows : SameKey(n1, n2) => n1 = n2

\* The table after the session's flush: inserts, updates, then deletes.
Flushed(r) ==
    LET upd(m) == IF \E d \in r.dirty_rows : SameKey(d, m)
                  THEN CHOOSE d \in r.dirty_rows : SameKey(d, m)
                  ELSE m
        kept == {m \in Visible(r) : ~\E d \in r.deleted_rows : SameKey(d, m)}
    IN  {upd(m) : m \in kept} \cup r.new_rows

(***************************************************************************)
(* Tasks.  A slot holds the task of one configuration started one way      *)
(* (manual trigger or scheduled fire): its position, the lists it          *)
(* fetched, its counters, its session and its run record (SyncLog).        *)
(***************************************************************************)

IdleRun(c) ==
    [cfg |-> c, pc |-> "idle", source_events |-> <<>>, dest_events |-> <<>>,
     i |-> 1, created |-> 0, updated |-> 0, deleted |-> 0, calls |-> 0,
     tolerated |-> 0, recreated |-> {}, undisturbed |-> "all",
     after_src_quiet |-> FALSE, after_clean |-> FALSE,
     bulk_deleted |-> {}, new_rows |-> {}, deleted_rows |-> {},
     dirty_rows |-> {},
     log |-> None, error |-> None, events_created |-> 0, events_updated |-> 0,
     events_deleted |-> 0]

Active(s) == run[s].pc \in {"fetch_src", "fetch_dst", "loop"}

\* dest_map.get(src_id): the last listed non-cancelled destination event that
\* carries source_id = src_id, or no event.
NoEvent == NativeEvent(NoId, None, None, 0)

dest_map_empty(dest_events, src_id) == NoEvent

dest_map(dest_events, src_id) ==
    LET hits == {j \in 1..Len(dest_events) :
                    /\ dest_events[j].status # "cancelled"
                    /\ dest_events[j].source_id # NoId
                    /\ dest_events[j].source_id = src_id}
    IN  IF hits = {} THEN NoEvent
        ELSE dest_events[CHOOSE j \in hits : \A k \in hits : k <= j]

\* The loop's current source event and what lines 278-322 compute for it.
Src(s) == run[s].source_events[run[s].i]
\* Variant of DestMatch that takes the last live destination event whatever
\* its source_id.
DestMatch_any(s) ==
    LET hits == {j \in 1..Len(run[s].dest_events) :
                    run[s].dest_events[j].status # "cancelled"}
    IN  IF hits = {} THEN NoEvent
        ELSE run[s].dest_events[CHOOSE j \in hits : \A k \in hits : k <= j]

DestMatch(s) == dest_map(run[s].dest_events, Src(s).id)
Mapping(s) == QueryMapping(run[s], Src(s).id)
Origin(s) == get_origin_calendar_id(Src(s), Mapping(s), SourceCal(run[s].cfg))
Payload(s) ==
    build_payload_from_source(Src(s), Origin(s), run[s].cfg, privacy[run[s].cfg])

InLoop(s) == run[s].pc = "loop" /\ run[s].i <= Len(run[s].source_events)

\* Lines 339-341: both sides modified since the mapping was recorded.
BothModified_either(src, dest_match, mapping) ==
    \/ src.updated > mapping.source_last_modified
    \/ dest_match.updated > mapping.dest_last_modified

BothModified(src, dest_match, mapping) ==
    /\ src.updated > mapping.source_last_modified
    /\ dest_match.updated > mapping.dest_last_modified

\* Lines 324-348: the conflict check ends the iteration (continue).
DestWins(s) ==
    /\ Mapping(s).sync_config_id # None
    /\ BothModified(Src(s), DestMatch(s), Mapping(s))
    /\ resolve_conflict(Mapping(s), SourceCal(run[s].cfg)) = "dest_wins"

\* The task's transaction ends: the session flushes and commits, or the
\* flush is refused (IntegrityError) and everything is rolled back.
CommitOk(s) == UniqueOk(run[s])

\* run_sync_task lines 540-554 after a successful sync_calendars.
Succeeded(r) ==
    [r EXCEPT !.pc = "done", !.log = "success",
              !.events_created = r.created, !.events_updated = r.updated,
              !.events_deleted = r.deleted,
              !.bulk_deleted = {}, !.new_rows = {}, !.deleted_rows = {},
              !.recreated = {},
              !.dirty_rows = {}, !.source_events = <<>>, !.dest_events = <<>>]

\* run_sync_task lines 556-563: the except block marks the record failed and
\* commits the session as it stands.
Failed(r) ==
    [r EXCEPT !.pc = "done", !.log = "failed", !.error = "HttpError",
              !.bulk_deleted = {}, !.new_rows = {}, !.deleted_rows = {},
              !.recreated = {},
              !.dirty_rows = {}, !.source_events = <<>>, !.dest_events = <<>>]

\* The flush is refused (IntegrityError): the session is left rolled back,
\* the except block's own query or commit raises on it, so the record is
\* never updated; line 566 closes the session.
Aborted(r) ==
    [r EXCEPT !.pc = "done", !.error = "IntegrityError",
              !.bulk_deleted = {}, !.new_rows = {}, !.deleted_rows = {},
              !.recreated = {},
              !.dirty_rows = {}, !.source_events = <<>>, !.dest_events = <<>>]

\* An HttpError leaves sync_calendars: what run_sync_task's except block does
\* with the task r (its session holding the mutations made so far).
Raise(s, r) ==
    IF UniqueOk(r)
    THEN /\ mappings' = Flushed(r)
         /\ run' = [run EXCEPT ![s] = Failed(r)]
    ELSE /\ mappings' = mappings
         /\ run' = [run EXCEPT ![s] = Aborted(r)]

(***************************************************************************)
(* The calendars' users.                                                   *)
(***************************************************************************)

IsCopy(e) == e.synced_by_system = "true"
Live(e) == e.status # "cancelled"

\* The field undisturbed of a task only observes the users: "all" while no
\* user has touched either calendar since the run began, "source" while none
\* has touched its source calendar, "no" afterwards.
Disturbed(cal) ==
    [s \in Slots |->
        [run[s] EXCEPT !.undisturbed =
            IF run[s].pc = "idle" THEN @
            ELSE IF cal = SourceCal(run[s].cfg) THEN "no"
            ELSE IF @ = "all" THEN "source" ELSE @]]

\* A user authors an event; origin is a shared property the event may carry.
UserCreate(cal, origin) ==
    /\ events' = Append(events, NativeEvent(Len(events) + 1, cal, origin, clock))
    /\ clock' = clock + 1
    /\ edits' = edits + 1
    /\ run' = Disturbed(cal)
    /\ UNCHANGED <<mappings, privacy, faults, started>>

Touch(id, e) ==
    /\ events' = [events EXCEPT ![id] = [e EXCEPT !.updated = clock]]
    /\ clock' = clock + 1
    /\ edits' = edits + 1
    /\ run' = Disturbed(e.cal)
    /\ UNCHANGED <<mappings, privacy, faults, started>>

\* A user renames an event they authored.
UserRenameNative(id) ==
    /\ Live(events[id]) /\ ~IsCopy(events[id])
    /\ Touch(id, [events[id] EXCEPT !.summary = Rename(@)])

\* A user cancels an event they authored.
UserCancelNative(id) ==
    /\ Live(events[id]) /\ ~IsCopy(events[id])
    /\ Touch(id, [events[id] EXCEPT !.status = "cancelled"])

\* A user renames a copy the engine made (a destination-side edit).
UserRenameCopy(id) ==
    /\ Live(events[id]) /\ IsCopy(events[id])
    /\ Touch(id, [events[id] EXCEPT !.summary = Retitle(@)])

\* A user (or another application) sets a shared extended property of its
\* own, outside the engine's keys, on a copy.
UserTagCopy(id) ==
    /\ Live(events[id]) /\ IsCopy(events[id])
    /\ events[id].custom = None
    /\ Touch(id, [events[id] EXCEPT !.custom = "label"])

\* A user deletes a copy the engine made (a destination-side deletion).
UserCancelCopy(id) ==
    /\ Live(events[id]) /\ IsCopy(events[id])
    /\ Touch(id, [events[id] EXCEPT !.status = "cancelled"])

(***************************************************************************)
(* Starting a run.                                                         *)
(***************************************************************************)

\* The fields after_src_quiet and after_clean only observe: whether the
\* slot's previous run succeeded with no user operation on the source calendar
\* since it began (after_src_quiet), or with no user operation at all and no
\* failed remote call (after_clean).
Begun(s) ==
    [IdleRun(s[1]) EXCEPT
        !.pc = "fetch_src", !.log = "running",
        !.after_src_quiet =
            /\ run[s].pc = "done" /\ run[s].log = "success"
            /\ run[s].undisturbed # "no",
        !.after_clean =
            /\ run[s].pc = "done" /\ run[s].log = "success"
            /\ run[s].tolerated = 0
            /\ run[s].undisturbed = "all"]

Begin(s) ==
    /\ run' = [run EXCEPT ![s] = Begun(s)]
    /\ started' = started + 1
    /\ UNCHANGED <<events, clock, mappings, privacy, edits, faults>>

\* A row of sync_configs (the fields the scheduling reads), or no row.
StoredConfig(is_active, auto_sync_enabled, auto_sync_cron, auto_sync_timezone) ==
    [is_active |-> is_active, auto_sync_enabled |-> auto_sync_enabled,
     auto_sync_cron |-> auto_sync_cron,
     auto_sync_timezone |-> auto_sync_timezone]

NoConfig == StoredConfig(FALSE, FALSE, None, None)

\* A job of the scheduler's store: its id sync_<config id> and its trigger.
JobId(c) == <<"sync", c>>

Job(c, cron, tz) == [id |-> JobId(c), cron |-> cron, timezone |-> tz]

HasJob(c) == \E j \in jobs : j.id = JobId(c)

\* SyncScheduler.add_job, as a function of the job store js: nothing while
\* the scheduler is not running; the call raises, leaving the store alone,
\* when from_crontab refuses the expression; an unknown timezone becomes UTC;
\* replace_existing = True.
add_job_raises(cron_expr) == running /\ cron_expr \notin from_crontab

add_job_keeps_existing(js, c, cron_expr, timezone_str) ==
    IF ~running \/ add_job_raises(cron_expr) THEN js
    ELSE js \cup {Job(c, cron_expr,
                      IF validate_timezone(timezone_str)
                      THEN timezone_str ELSE "UTC")}

add_job(js, c, cron_expr, timezone_str) ==
    IF ~running \/ add_job_raises(cron_expr) THEN js
    ELSE {j \in js : j.id # JobId(c)}
         \cup {Job(c, cron_expr,
                   IF validate_timezone(timezone_str)
                   THEN timezone_str ELSE "UTC")}

\* SyncScheduler.remove_job.
remove_job_all(js, c) ==
    IF ~running THEN js ELSE {}

remove_job(js, c) ==
    IF ~running THEN js ELSE {j \in js : j.id # JobId(c)}

\* The query of load_all_jobs_from_db: active, auto-sync enabled, cron not NULL.
Selected(cfg) ==
    {c \in Configs : /\ cfg[c].is_active /\ cfg[c].auto_sync_enabled
                     /\ cfg[c].auto_sync_cron # None}

\* SyncScheduler.load_all_jobs_from_db: add_job for each selected
\* configuration, an exception of add_job being logged and passed over.
RECURSIVE LoadJobs(_, _, _)
LoadJobs(js, cfg, todo) ==
    IF todo = {} THEN js
    ELSE LET c == CHOOSE x \in todo : TRUE
         IN  LoadJobs(add_job(js, c, cfg[c].auto_sync_cron,
                              cfg[c].auto_sync_timezone),
                      cfg, todo \ {c})

load_all_jobs_from_db(js, cfg) == LoadJobs(js, cfg, Selected(cfg))

\* get_credentials_from_db for "source" and for "destination": both found.
HasCredentials_source_only == "source" \in tokens

HasCredentials == tokens = AccountTypes

\* trigger_sync: a run record is created and the task handed to the
\* background; nothing looks at tasks already running.  (The model keeps one
\* manual task per configuration.)
TriggerSync(c) ==
    /\ config[c] # NoConfig /\ config[c].is_active
    /\ HasCredentials
    /\ ~Active(<<c, "manual">>)
    /\ Begin(<<c, "manual">>)

\* trigger_sync lines 364-372: credentials are missing, the request is
\* answered 400 before any run record is created.
TriggerRefused(c) ==
    /\ config[c] # NoConfig /\ config[c].is_active
    /\ ~HasCredentials
    /\ refused' = refused + 1
    /\ UNCHANGED <<events, clock, mappings, privacy, run, edits, faults,
                   started, hist, tokens, config, jobs, running>>

\* A cron fire of job sync_<c>: max_instances = 1 skips the fire while the
\* job's previous instance is still running; scheduled_sync_job returns at
\* once when the configuration is gone or inactive.
ScheduledFire(c) ==
    /\ running /\ HasJob(c)
    /\ config[c] # NoConfig /\ config[c].is_active
    /\ HasCredentials
    /\ ~Active(<<c, "scheduled">>)
    /\ Begin(<<c, "scheduled">>)

\* scheduled_sync_job lines 193-212: credentials are missing, a failed run
\* record is written and the job returns.
ScheduledRefused(c) ==
    /\ running /\ HasJob(c)
    /\ config[c] # NoConfig /\ config[c].is_active
    /\ ~HasCredentials
    /\ ~Active(<<c, "scheduled">>)
    /\ run' = [run EXCEPT ![<<c, "scheduled">>] =
                  [IdleRun(c) EXCEPT !.pc = "done", !.log = "failed",
                      !.error = "OAuth credentials not found"]]
    /\ started' = started + 1
    /\ UNCHANGED <<events, clock, mappings, privacy, edits, faults, hist,
                   tokens, refused, config, jobs, running>>

\* The variables of the engine and of the accounts, which the requests on
\* configurations and the scheduler leave alone.
engine == <<events, clock, mappings, run, faults, started, tokens, refused>>

\* create_sync_config (one-way): the request passes the validators of
\* CreateSyncConfigRequest, the row is committed, then the job is added.
CreateSyncConfig(c, privacy_mode_enabled, auto_sync_enabled, auto_sync_cron, auto_sync_timezone) ==
    /\ running
    /\ config[c] = NoConfig
    /\ Truthy(auto_sync_cron) => validate_cron_expression(auto_sync_cron)
    /\ validate_timezone(auto_sync_timezone)
    /\ auto_sync_enabled => Truthy(auto_sync_cron)
    /\ config' = [config EXCEPT ![c] =
                     StoredConfig(TRUE, auto_sync_enabled, auto_sync_cron,
                                  auto_sync_timezone)]
    /\ privacy' = [privacy EXCEPT ![c] = privacy_mode_enabled]
    /\ jobs' = IF auto_sync_enabled /\ Truthy(auto_sync_cron)
               THEN add_job(jobs, c, auto_sync_cron, auto_sync_timezone)
               ELSE jobs
    /\ UNCHANGED <<engine, edits, hist, running>>

\* update_sync_config: a field is None when the request leaves it out (an
\* Optional[bool] of the request is "true", "false" or None).
UpdateSyncConfig(c, privacy_mode_enabled, is_active, auto_sync_enabled, auto_sync_cron, auto_sync_timezone) ==
    /\ running
    /\ config[c] # NoConfig
    /\ Truthy(auto_sync_cron) => validate_cron_expression(auto_sync_cron)
    /\ Truthy(auto_sync_timezone) => validate_timezone(auto_sync_timezone)
    /\ LET Set(new, old) == IF new # None THEN new ELSE old
           SetBool(new, old) == IF new # None THEN new = "true" ELSE old
           sync_config ==
               StoredConfig(SetBool(is_active, config[c].is_active),
                            SetBool(auto_sync_enabled,
                                    config[c].auto_sync_enabled),
                            Set(auto_sync_cron, config[c].auto_sync_cron),
                            Set(auto_sync_timezone, config[c].auto_sync_timezone))
           schedule_changed ==
               \/ is_active # None \/ auto_sync_enabled # None
               \/ auto_sync_cron # None \/ auto_sync_timezone # None
       IN  /\ config' = [config EXCEPT ![c] = sync_config]
           /\ privacy' = [privacy EXCEPT ![c] =
                             SetBool(privacy_mode_enabled, @)]
           /\ jobs' =
                 IF ~schedule_changed THEN jobs
                 ELSE IF /\ sync_config.is_active
                         /\ sync_config.auto_sync_enabled
                         /\ Truthy(sync_config.auto_sync_cron)
                      THEN add_job(jobs, c, sync_config.auto_sync_cron,
                                   sync_config.auto_sync_timezone)
                      ELSE remove_job(jobs, c)
    /\ UNCHANGED <<engine, edits, hist, running>>

\* delete_sync_config: the job is removed, then the run records, the row and
\* (by cascade) its mapping rows are deleted.
DeleteSyncConfig(c) ==
    /\ running
    /\ config[c] # NoConfig
    /\ \A k \in Kinds : ~Active(<<c, k>>)
    /\ jobs' = remove_job(jobs, c)
    /\ config' = [config EXCEPT ![c] = NoConfig]
    /\ mappings' = {m \in mappings : m.sync_config_id # c}
    /\ run' = [s \in Slots |-> IF s[1] = c THEN IdleRun(c) ELSE run[s]]
    /\ UNCHANGED <<events, clock, privacy, edits, faults, started, hist,
                   tokens, refused, running>>

\* The process ends: lifespan's shutdown; the in-memory job store is lost.
Shutdown ==
    /\ running
    /\ \A s \in Slots : ~Active(s)
    /\ running' = FALSE
    /\ jobs' = {}
    /\ UNCHANGED <<engine, privacy, edits, hist, config>>

\* The process starts: lifespan calls start(), which sets _running and
\* makes an empty job store, then load_all_jobs_from_db, whose add_job calls
\* find the scheduler running.
Startup ==
    /\ ~running
    /\ running' = TRUE
    /\ UNCHANGED <<engine, privacy, edits, hist, config>>
    /\ jobs' = load_all_jobs_from_db({}, config)'

\* SyncScheduler.start on a scheduler that is not running: a new scheduler
\* with an empty MemoryJobStore.
Start ==
    /\ ~running
    /\ running' = TRUE
    /\ jobs' = {}
    /\ UNCHANGED <<engine, privacy, edits, hist, config>>

\* A direct call of SyncScheduler.add_job; hist keeps, for each
\* configuration id, the arguments of the last call and of the last call
\* that returned, and the number of remove_job calls.
NoCall == [n |-> 0, cron |-> None, timezone |-> None]

AddJob(c, cron_expr, timezone_str) ==
    /\ jobs' = add_job(jobs, c, cron_expr, timezone_str)
    /\ LET call == [n |-> hist[c].last.n + 1, cron |-> cron_expr,
                    timezone |-> timezone_str]
       IN  hist' = [hist EXCEPT ![c] =
                      [@ EXCEPT !.last = call,
                                !.returned = IF add_job_raises(cron_expr)
                                             THEN @ ELSE call]]
    /\ edits' = edits + 1
    /\ UNCHANGED <<engine, privacy, config, running>>

\* A direct call of SyncScheduler.remove_job.
RemoveJob(c) ==
    /\ jobs' = remove_job(jobs, c)
    /\ hist' = [hist EXCEPT ![c].removes = @ + 1]
    /\ edits' = edits + 1
    /\ UNCHANGED <<engine, privacy, config, running>>

\* oauth_callback: the token of one account type is stored.
OAuthCallback(account_type) ==
    /\ tokens' = tokens \cup {account_type}
    /\ UNCHANGED <<events, clock, mappings, privacy, run, edits, faults,
                   started, hist, refused, config, jobs, running>>

(***************************************************************************)
(* sync_calendars, step by step.  A remote call may be answered with an    *)
(* error (an injected fault, counted in faults).                           *)
(***************************************************************************)

Quiet == UNCHANGED <<events, clock, mappings, privacy, edits, faults, started>>

\* Line 248: the source list.
FetchSource(s) ==
    /\ run[s].pc = "fetch_src"
    /\ run' = [run EXCEPT ![s] =
                  [@ EXCEPT !.source_events = fetch_events(SourceCal(run[s].cfg)),
                            !.pc = "fetch_dst"]]
    /\ Quiet

\* Lines 251-264: the destination list, indexed by source_id on use.
FetchDest(s) ==
    /\ run[s].pc = "fetch_dst"
    /\ run' = [run EXCEPT ![s] =
                  [@ EXCEPT !.dest_events = fetch_events(DestCal(run[s].cfg)),
                            !.pc = "loop", !.i = 1]]
    /\ Quiet

\* A list call raises: no mutation was made, the run is recorded failed.
FetchRaises(s) ==
    /\ run[s].pc \in {"fetch_src", "fetch_dst"}
    /\ faults' = faults + 1
    /\ Raise(s, run[s])
    /\ UNCHANGED <<events, clock, privacy, edits, started>>

Continue_break(r) == [r EXCEPT !.i = Len(r.source_events) + 1]

Continue(r) == [r EXCEPT !.i = r.i + 1]

\* Lines 273-276 and 280-297 (no match): the iteration does nothing.
SkipEvent(s) ==
    /\ InLoop(s)
    /\ \/ should_skip_event(Src(s))
       \/ Src(s).status = "cancelled" /\ DestMatch(s).id = NoId
    /\ run' = [run EXCEPT ![s] = Continue(@)]
    /\ Quiet

CancelledSource(s) ==
    /\ InLoop(s)
    /\ ~should_skip_event(Src(s))
    /\ Src(s).status = "cancelled"
    /\ DestMatch(s).id # NoId

\* Variant of Unmapped in which lines 293-296 are missing.
Unmapped_not(r, src_id) == [r EXCEPT !.bulk_deleted = @ \ {src_id}]

\* Lines 293-296: the session after the bulk delete of the pair's rows.
Unmapped(r, src_id) == [r EXCEPT !.bulk_deleted = @ \cup {src_id}]

\* Lines 280-297: the match of a cancelled source event is deleted (404/410
\* counts as deleted) and the mapping rows of the pair are bulk-deleted.
DeleteCopy(s) ==
    /\ CancelledSource(s)
    /\ LET id == DestMatch(s).id
       IN  IF IsGone(id)
           THEN UNCHANGED <<events, clock>>
           ELSE /\ events' = [events EXCEPT ![id] = Cancelled(@)]
                /\ clock' = clock + 1
    /\ run' = [run EXCEPT ![s] =
                  [Unmapped(Continue(@), Src(s).id) EXCEPT
                      !.deleted = @ + 1, !.calls = @ + 1]]
    /\ UNCHANGED <<mappings, privacy, edits, faults, started>>

\* Lines 289-291: the delete raises another error.
DeleteRaises(s) ==
    /\ CancelledSource(s)
    /\ faults' = faults + 1
    /\ Raise(s, [run[s] EXCEPT !.calls = @ + 1])
    /\ UNCHANGED <<events, clock, privacy, edits, started>>

LiveSource(s) ==
    /\ InLoop(s)
    /\ ~should_skip_event(Src(s))
    /\ Src(s).status # "cancelled"

\* Lines 324-351: a match that is kept as it is (destination wins the
\* conflict, or nothing differs).
KeepCopy_refreshes(s) ==
    /\ LiveSource(s)
    /\ DestMatch(s).id # NoId
    /\ DestWins(s) \/ ~events_differ(Payload(s), DestMatch(s))
    /\ run' = [run EXCEPT ![s] =
                  [Continue(@) EXCEPT
                      !.dirty_rows =
                          IF DestWins(s)
                          THEN @ \cup {[Mapping(s) EXCEPT
                                          !.source_last_modified = Src(s).updated,
                                          !.dest_last_modified = DestMatch(s).updated]}
                          ELSE @]]
    /\ Quiet

KeepCopy(s) ==
    /\ LiveSource(s)
    /\ DestMatch(s).id # NoId
    /\ DestWins(s) \/ ~events_differ(Payload(s), DestMatch(s))
    /\ run' = [run EXCEPT ![s] = Continue(@)]
    /\ Quiet

\* Lines 362-369: the mapping row after a successful update.
Remapped_source_origin(mapping, src, result, origin, privacy_mode_enabled) ==
    [mapping EXCEPT
        !.source_last_modified = src.updated,
        !.dest_last_modified = result.updated,
        !.origin_calendar_id = src.cal,
        !.is_privacy_mode = privacy_mode_enabled]

Remapped(mapping, src, result, origin, privacy_mode_enabled) ==
    [mapping EXCEPT
        !.source_last_modified = src.updated,
        !.dest_last_modified = result.updated,
        !.origin_calendar_id = IF @ = None THEN origin ELSE @,
        !.is_privacy_mode = privacy_mode_enabled]

\* The session after add(new_mapping) for a freshly inserted copy.
WithNewRow(s, r, result) ==
    [r EXCEPT !.created = @ + 1,
              !.new_rows = @ \cup {EventMapping(run[s].cfg, Src(s), result,
                                       Origin(s), privacy[run[s].cfg])}]

\* Line 351: the match differs, an update is called for.
Differs(s) ==
    /\ LiveSource(s)
    /\ DestMatch(s).id # NoId
    /\ ~DestWins(s)
    /\ events_differ(Payload(s), DestMatch(s))

\* Lines 352-369: the update succeeds; the mapping row, if any, is refreshed.
UpdateCopy(s) ==
    /\ Differs(s)
    /\ ~IsGone(DestMatch(s).id)
    /\ LET id == DestMatch(s).id
           result == Updated(events[id], Payload(s))
       IN  /\ events' = [events EXCEPT ![id] = result]
           /\ run' = [run EXCEPT ![s] =
                 [Continue(@) EXCEPT
                     !.calls = @ + 1,
                     !.updated = @ + 1,
                     !.dirty_rows =
                         IF Mapping(s).sync_config_id # None
                         THEN {d \in @ : ~SameKey(d, Mapping(s))} \cup
                              {Remapped(Mapping(s), Src(s), result, Origin(s),
                                        privacy[run[s].cfg])}
                         ELSE @]]
    /\ clock' = clock + 1
    /\ UNCHANGED <<mappings, privacy, edits, faults, started>>

\* Lines 370-375: the update is answered 404/410; the stale mapping, if any,
\* is marked deleted in the session.
Dropped(s) ==
    [Continue(run[s]) EXCEPT
        !.calls = @ + 2,
        !.deleted_rows = IF Mapping(s).sync_config_id # None
                         THEN @ \cup {Mapping(s)} ELSE @]

\* Lines 376-398: recreate-on-ghost, the insert succeeds (recreated only
\* observes which source events took this path).
RecreateCopy(s) ==
    /\ Differs(s)
    /\ IsGone(DestMatch(s).id)
    /\ LET fresh == Inserted(DestCal(run[s].cfg), Payload(s))
       IN  /\ events' = Append(events, fresh)
           /\ run' = [run EXCEPT ![s] =
                 WithNewRow(s, [Dropped(s) EXCEPT
                                   !.recreated = @ \cup {Src(s).id}], fresh)]
    /\ clock' = clock + 1
    /\ UNCHANGED <<mappings, privacy, edits, faults, started>>

\* Lines 399-401: the recreating insert fails too; the event is skipped.
RecreateFails(s) ==
    /\ Differs(s)
    /\ IsGone(DestMatch(s).id)
    /\ faults' = faults + 1
    /\ run' = [run EXCEPT ![s] = [Dropped(s) EXCEPT !.tolerated = @ + 1]]
    /\ UNCHANGED <<events, clock, mappings, privacy, edits, started>>

\* Lines 402-404: the update raises another error.
UpdateRaises(s) ==
    /\ Differs(s)
    /\ faults' = faults + 1
    /\ Raise(s, [run[s] EXCEPT !.calls = @ + 1])
    /\ UNCHANGED <<events, clock, privacy, edits, started>>

Unmatched(s) ==
    /\ LiveSource(s)
    /\ DestMatch(s).id = NoId

\* Lines 405-427: no match, the copy is inserted and a mapping row added.
InsertCopy(s) ==
    /\ Unmatched(s)
    /\ LET fresh == Inserted(DestCal(run[s].cfg), Payload(s))
       IN  /\ events' = Append(events, fresh)
           /\ run' = [run EXCEPT ![s] =
                 WithNewRow(s, [Continue(run[s]) EXCEPT !.calls = @ + 1], fresh)]
    /\ clock' = clock + 1
    /\ UNCHANGED <<mappings, privacy, edits, faults, started>>

\* Lines 428-432: the insert is answered 404/410; the event is skipped.
InsertSkipped(s) ==
    /\ Unmatched(s)
    /\ faults' = faults + 1
    /\ run' = [run EXCEPT ![s] =
                  [Continue(@) EXCEPT !.calls = @ + 1, !.tolerated = @ + 1]]
    /\ UNCHANGED <<events, clock, mappings, privacy, edits, started>>

\* Lines 430-432: the insert raises another error.
InsertRaises(s) ==
    /\ Unmatched(s)
    /\ faults' = faults + 1
    /\ Raise(s, [run[s] EXCEPT !.calls = @ + 1])
    /\ UNCHANGED <<events, clock, privacy, edits, started>>

\* Line 434 and run_sync_task lines 540-554: the session commits and the run
\* record gets the counts; a refused commit leaves the record as it was.
Commit(s) ==
    /\ run[s].pc = "loop"
    /\ run[s].i > Len(run[s].source_events)
    /\ IF CommitOk(s)
       THEN /\ mappings' = Flushed(run[s])
            /\ run' = [run EXCEPT ![s] = Succeeded(@)]
       ELSE /\ mappings' = mappings
            /\ run' = [run EXCEPT ![s] = Aborted(@)]
    /\ UNCHANGED <<events, clock, privacy, edits, faults, started>>

(***************************************************************************)
(* The system.                                                             *)
(***************************************************************************)

Init ==
    /\ events = <<NativeEvent(1, "A", None, 0)>>
    /\ clock = 1
    /\ mappings = {}
    /\ privacy = [c \in Configs |-> c = "c2"]
    /\ run = [s \in Slots |-> IdleRun(s[1])]
    /\ edits = 0
    /\ faults = 0
    /\ started = 0
    /\ hist = <<>>
    /\ tokens = AccountTypes
    /\ refused = 0
    /\ config = [c \in Configs |-> StoredConfig(TRUE, TRUE, Hourly, "UTC")]
    /\ jobs = {Job(c, Hourly, "UTC") : c \in Configs}
    /\ running = TRUE

Ids == 1..Len(events)
NoneActive == \A s \in Slots : ~Active(s)
Manual == {<<c, "manual">> : c \in Configs}

\* Runs one after the other, started by manual triggers; users edit both
\* calendars at any time; remote calls may fail.
Next ==
    \/ \E cal \in Cals :
          edits < MaxEdits /\ UserCreate(cal, None) /\ UNCHANGED <<hist, admin>>
    \/ \E id \in Ids :
          edits < MaxEdits /\ UserRenameNative(id) /\ UNCHANGED <<hist, admin>>
    \/ \E id \in Ids :
          edits < MaxEdits /\ UserCancelNative(id) /\ UNCHANGED <<hist, admin>>
    \/ \E id \in Ids :
          edits < MaxEdits /\ UserRenameCopy(id) /\ UNCHANGED <<hist, admin>>
    \/ \E id \in Ids :
          edits < MaxEdits /\ UserCancelCopy(id) /\ UNCHANGED <<hist, admin>>
    \/ \E c \in Configs :
          started < MaxRuns /\ NoneActive /\ TriggerSync(c) /\ UNCHANGED <<hist, admin>>
    \/ \E s \in Manual : FetchSource(s) /\ UNCHANGED <<hist, admin>>
    \/ \E s \in Manual : FetchDest(s) /\ UNCHANGED <<hist, admin>>
    \/ \E s \in Manual : SkipEvent(s) /\ UNCHANGED <<hist, admin>>
    \/ \E s \in Manual : DeleteCopy(s) /\ UNCHANGED <<hist, admin>>
    \/ \E s \in Manual : KeepCopy(s) /\ UNCHANGED <<hist, admin>>
    \/ \E s \in Manual : UpdateCopy(s) /\ UNCHANGED <<hist, admin>>
    \/ \E s \in Manual : RecreateCopy(s) /\ UNCHANGED <<hist, admin>>
    \/ \E s \in Manual : InsertCopy(s) /\ UNCHANGED <<hist, admin>>
    \/ \E s \in Manual : Commit(s) /\ UNCHANGED <<hist, admin>>
    \/ \E s \in Manual :
          faults < MaxFaults /\ FetchRaises(s) /\ UNCHANGED <<hist, admin>>
    \/ \E s \in Manual :
          faults < MaxFaults /\ DeleteRaises(s) /\ UNCHANGED <<hist, admin>>
    \/ \E s \in Manual :
          faults < MaxFaults /\ RecreateFails(s) /\ UNCHANGED <<hist, admin>>
    \/ \E s \in Manual :
          faults < MaxFaults /\ UpdateRaises(s) /\ UNCHANGED <<hist, admin>>
    \/ \E s \in Manual :
          faults < MaxFaults /\ InsertSkipped(s) /\ UNCHANGED <<hist, admin>>
    \/ \E s \in Manual :
          faults < MaxFaults /\ InsertRaises(s) /\ UNCHANGED <<hist, admin>>

Spec == Init /\ [][Next]_vars

(***************************************************************************)
(* The life of one event: runs of c1 one after the other, the source       *)
(* event's author renaming or cancelling it between runs, no remote        *)
(* failure.  hist records the user's operations and each run's result.     *)
(***************************************************************************)

Entry(op, r, mapped) ==
    [op |-> op, created |-> r.created, updated |-> r.updated,
     deleted |-> r.deleted, mapped |-> mapped]

Recorded(op) ==
    hist' = Append(hist, Entry(op, IdleRun("c1"), FALSE))

RecordedRun(c) ==
    hist' = Append(hist,
                Entry("run", run'[<<c, "manual">>],
                      \E m \in mappings' :
                          m.sync_config_id = c /\ m.source_event_id = 1))

NextLifecycle ==
    \/ /\ edits < LifeEdits /\ NoneActive
       /\ UserRenameNative(1) /\ Recorded("rename") /\ UNCHANGED admin
    \/ /\ edits < LifeEdits /\ NoneActive
       /\ UserCancelNative(1) /\ Recorded("cancel") /\ UNCHANGED admin
    \/ started < LifeRuns /\ NoneActive /\ TriggerSync("c1") /\ UNCHANGED <<hist, admin>>
    \/ FetchSource(<<"c1", "manual">>) /\ UNCHANGED <<hist, admin>>
    \/ FetchDest(<<"c1", "manual">>) /\ UNCHANGED <<hist, admin>>
    \/ SkipEvent(<<"c1", "manual">>) /\ UNCHANGED <<hist, admin>>
    \/ DeleteCopy(<<"c1", "manual">>) /\ UNCHANGED <<hist, admin>>
    \/ KeepCopy(<<"c1", "manual">>) /\ UNCHANGED <<hist, admin>>
    \/ UpdateCopy(<<"c1", "manual">>) /\ UNCHANGED <<hist, admin>>
    \/ InsertCopy(<<"c1", "manual">>) /\ UNCHANGED <<hist, admin>>
    \/ Commit(<<"c1", "manual">>) /\ RecordedRun("c1") /\ UNCHANGED admin

SpecLifecycle == Init /\ [][NextLifecycle]_vars

(***************************************************************************)
(* Conflicts: events of calendar A that carry an origin in their shared    *)
(* properties ("X" is a calendar outside the pair), edited on both sides   *)
(* between runs of c1.                                                     *)
(***************************************************************************)

Origins == {"A", "B", "X"}

NextOrigin ==
    \/ \E origin \in Origins :
          edits < OriginEdits /\ UserCreate("A", origin) /\ UNCHANGED <<hist, admin>>
    \/ \E id \in Ids :
          edits < OriginEdits /\ UserRenameNative(id) /\ UNCHANGED <<hist, admin>>
    \/ \E id \in Ids :
          edits < OriginEdits /\ UserRenameCopy(id) /\ UNCHANGED <<hist, admin>>
    \/ started < OriginRuns /\ NoneActive /\ TriggerSync("c1") /\ UNCHANGED <<hist, admin>>
    \/ FetchSource(<<"c1", "manual">>) /\ UNCHANGED <<hist, admin>>
    \/ FetchDest(<<"c1", "manual">>) /\ UNCHANGED <<hist, admin>>
    \/ KeepCopy(<<"c1", "manual">>) /\ UNCHANGED <<hist, admin>>
    \/ UpdateCopy(<<"c1", "manual">>) /\ UNCHANGED <<hist, admin>>
    \/ InsertCopy(<<"c1", "manual">>) /\ UNCHANGED <<hist, admin>>
    \/ Commit(<<"c1", "manual">>) /\ UNCHANGED <<hist, admin>>

SpecOrigin == Init /\ [][NextOrigin]_vars

(***************************************************************************)
(* Overlap: manual triggers and scheduled fires of c1 arrive at any time.  *)
(***************************************************************************)

SlotsOf(c) == {<<c, k>> : k \in Kinds}

NextConc ==
    \/ edits < ConcEdits /\ UserCreate("A", None) /\ UNCHANGED <<hist, admin>>
    \/ started < ConcRuns /\ TriggerSync("c1") /\ UNCHANGED <<hist, admin>>
    \/ started < ConcRuns /\ ScheduledFire("c1") /\ UNCHANGED <<hist, admin>>
    \/ \E s \in SlotsOf("c1") : FetchSource(s) /\ UNCHANGED <<hist, admin>>
    \/ \E s \in SlotsOf("c1") : FetchDest(s) /\ UNCHANGED <<hist, admin>>
    \/ \E s \in SlotsOf("c1") : KeepCopy(s) /\ UNCHANGED <<hist, admin>>
    \/ \E s \in SlotsOf("c1") : InsertCopy(s) /\ UNCHANGED <<hist, admin>>
    \/ \E s \in SlotsOf("c1") : Commit(s) /\ UNCHANGED <<hist, admin>>

SpecConc == Init /\ [][NextConc]_vars

(***************************************************************************)
(* The two directions of the pair at the same time: a run of c1 and a run  *)
(* of c2 interleave freely (each configuration runs one task at a time),   *)
(* users edit their own events meanwhile.                                  *)
(***************************************************************************)

NextPair ==
    \/ \E cal \in Cals :
          edits < PairEdits /\ UserCreate(cal, None) /\ UNCHANGED <<hist, admin>>
    \/ \E id \in Ids :
          edits < PairEdits /\ UserRenameNative(id) /\ UNCHANGED <<hist, admin>>
    \/ \E id \in Ids :
          edits < PairEdits /\ UserCancelNative(id) /\ UNCHANGED <<hist, admin>>
    \/ \E c \in Configs :
          started < PairRuns /\ TriggerSync(c) /\ UNCHANGED <<hist, admin>>
    \/ \E s \in Manual : FetchSource(s) /\ UNCHANGED <<hist, admin>>
    \/ \E s \in Manual : FetchDest(s) /\ UNCHANGED <<hist, admin>>
    \/ \E s \in Manual : SkipEvent(s) /\ UNCHANGED <<hist, admin>>
    \/ \E s \in Manual : DeleteCopy(s) /\ UNCHANGED <<hist, admin>>
    \/ \E s \in Manual : KeepCopy(s) /\ UNCHANGED <<hist, admin>>
    \/ \E s \in Manual : UpdateCopy(s) /\ UNCHANGED <<hist, admin>>
    \/ \E s \in Manual : InsertCopy(s) /\ UNCHANGED <<hist, admin>>
    \/ \E s \in Manual : Commit(s) /\ UNCHANGED <<hist, admin>>

SpecPair == Init /\ [][NextPair]_vars

(***************************************************************************)
(* Credentials: the user has not connected the two accounts yet; triggers  *)
(* and cron fires arrive before and after the OAuth callbacks.             *)
(***************************************************************************)
InitCreds ==
    /\ events = <<NativeEvent(1, "A", None, 0)>>
    /\ clock = 1
    /\ mappings = {}
    /\ privacy = [c \in Configs |-> c = "c2"]
    /\ run = [s \in Slots |-> IdleRun(s[1])]
    /\ edits = 0
    /\ faults = 0
    /\ started = 0
    /\ hist = <<>>
    /\ tokens = {}
    /\ refused = 0
    /\ config = [c \in Configs |-> StoredConfig(TRUE, TRUE, Hourly, "UTC")]
    /\ jobs = {Job(c, Hourly, "UTC") : c \in Configs}
    /\ running = TRUE

NextCreds ==
    \/ \E a \in AccountTypes : OAuthCallback(a)
    \/ \E c \in Configs : refused < CredOps /\ TriggerRefused(c)
    \/ \E c \in Configs : started < CredRuns /\ ScheduledRefused(c)
    \/ \E c \in Configs :
          started < CredRuns /\ NoneActive /\ TriggerSync(c)
          /\ UNCHANGED <<hist, admin>>
    \/ \E c \in Configs :
          started < CredRuns /\ NoneActive /\ ScheduledFire(c)
          /\ UNCHANGED <<hist, admin>>
    \/ \E id \in Ids :
          edits < CredEdits /\ UserRenameNative(id) /\ UNCHANGED <<hist, admin>>
    \/ \E id \in Ids :
          edits < CredEdits /\ UserCancelNative(id) /\ UNCHANGED <<hist, admin>>
    \/ \E s \in Slots : FetchSource(s) /\ UNCHANGED <<hist, admin>>
    \/ \E s \in Slots : FetchDest(s) /\ UNCHANGED <<hist, admin>>
    \/ \E s \in Slots : SkipEvent(s) /\ UNCHANGED <<hist, admin>>
    \/ \E s \in Slots : DeleteCopy(s) /\ UNCHANGED <<hist, admin>>
    \/ \E s \in Slots : KeepCopy(s) /\ UNCHANGED <<hist, admin>>
    \/ \E s \in Slots : UpdateCopy(s) /\ UNCHANGED <<hist, admin>>
    \/ \E s \in Slots : InsertCopy(s) /\ UNCHANGED <<hist, admin>>
    \/ \E s \in Slots : Commit(s) /\ UNCHANGED <<hist, admin>>

SpecCreds == InitCreds /\ [][NextCreds]_vars

(***************************************************************************)
(* Processing order: users and earlier runs bring the calendars and the    *)
(* mapping store into some state; then one run of c1 is made from that     *)
(* state twice: once going through the source events as fetched, once      *)
(* going through them in an arbitrary order.  hist keeps the state the two *)
(* runs start from and what each of them leaves behind.                    *)
(***************************************************************************)
OrderedSlot == <<"c1", "manual">>

\* What a run leaves behind, up to the ids and timestamps the remote store
\* assigns during the run (since0 is the store's time when the run began).
ResultOf(ev, mp, r, since0) ==
    LET Stamp(t) == IF t < since0 THEN t ELSE since0
        Norm(e) == [e EXCEPT !.id = NoId, !.updated = Stamp(@)]
        dest == {k \in 1..Len(ev) : ev[k].cal = DestCal(r.cfg)}
    IN  [created |-> r.created, updated |-> r.updated, deleted |-> r.deleted,
         log |-> r.log, error |-> r.error,
         source |-> SelectSeq(ev, LAMBDA e : e.cal = SourceCal(r.cfg)),
         dest_count |-> Cardinality(dest),
         dest |-> {Norm(ev[k]) : k \in dest},
         rows |-> {[m EXCEPT !.dest_event_id = Norm(ev[m.dest_event_id]),
                             !.dest_last_modified = Stamp(@)] : m \in mp}]

\* The run whose order is under study starts: trigger_sync on c1.
TriggerOrdered ==
    /\ hist = <<>> /\ NoneActive
    /\ Len(fetch_events(SourceCal("c1"))) >= 2
    /\ TriggerSync("c1")
    /\ hist' = <<[events |-> events, mappings |-> mappings, clock |-> clock,
                  run |-> run']>>
    /\ UNCHANGED admin

\* Line 248 and the loop of line 268 taking the fetched events in order p.
FetchSourceInOrder(s, p) ==
    /\ run[s].pc = "fetch_src"
    /\ hist # <<>>
    /\ LET fetched == fetch_events(SourceCal(run[s].cfg))
       IN  /\ p \in Permutations(1..Len(fetched))
           /\ Len(hist) = 1 => \A k \in 1..Len(fetched) : p[k] = k
           /\ run' = [run EXCEPT ![s] =
                 [@ EXCEPT !.source_events =
                               [k \in 1..Len(fetched) |-> fetched[p[k]]],
                           !.pc = "fetch_dst"]]
    /\ hist' = Append(hist,
                  [order |-> p, done |-> FALSE,
                   result |-> ResultOf(events, mappings, run[s], hist[1].clock)])
    /\ Quiet
    /\ UNCHANGED admin

\* The run under study returns.
CommitOrdered(s) ==
    /\ hist # <<>>
    /\ Commit(s)
    /\ hist' = [hist EXCEPT ![Len(hist)] =
                  [@ EXCEPT !.done = TRUE,
                            !.result = ResultOf(events', mappings', run'[s],
                                                hist[1].clock)]]
    /\ UNCHANGED admin

\* The same run is made again from the state the first one started from.
Replay ==
    /\ Len(hist) = 2 /\ hist[2].done
    /\ events' = hist[1].events
    /\ mappings' = hist[1].mappings
    /\ clock' = hist[1].clock
    /\ run' = hist[1].run
    /\ UNCHANGED <<privacy, edits, faults, started, hist, admin>>

NextOrder ==
    \/ \E cal \in Cals :
          /\ hist = <<>> /\ NoneActive /\ edits < OrderEdits
          /\ UserCreate(cal, None) /\ UNCHANGED <<hist, admin>>
    \/ \E id \in Ids :
          /\ hist = <<>> /\ NoneActive /\ edits < OrderEdits
          /\ UserRenameNative(id) /\ UNCHANGED <<hist, admin>>
    \/ \E id \in Ids :
          /\ hist = <<>> /\ NoneActive /\ edits < OrderEdits
          /\ UserCancelNative(id) /\ UNCHANGED <<hist, admin>>
    \/ \E id \in Ids :
          /\ hist = <<>> /\ NoneActive /\ edits < OrderEdits
          /\ UserCancelCopy(id) /\ UNCHANGED <<hist, admin>>
    \/ \E c \in Configs :
          /\ hist = <<>> /\ NoneActive /\ started < OrderRuns
          /\ TriggerSync(c) /\ UNCHANGED <<hist, admin>>
    \/ \E s \in Manual :
          hist = <<>> /\ FetchSource(s) /\ UNCHANGED <<hist, admin>>
    \/ TriggerOrdered
    \/ \E p \in UNION {Permutations(1..n) : n \in 2..(OrderEdits + 1)} :
          FetchSourceInOrder(OrderedSlot, p)
    \/ \E s \in Manual : FetchDest(s) /\ UNCHANGED <<hist, admin>>
    \/ \E s \in Manual : SkipEvent(s) /\ UNCHANGED <<hist, admin>>
    \/ \E s \in Manual : DeleteCopy(s) /\ UNCHANGED <<hist, admin>>
    \/ \E s \in Manual : KeepCopy(s) /\ UNCHANGED <<hist, admin>>
    \/ \E s \in Manual : UpdateCopy(s) /\ UNCHANGED <<hist, admin>>
    \/ \E s \in Manual : InsertCopy(s) /\ UNCHANGED <<hist, admin>>
    \/ \E s \in Manual : hist = <<>> /\ Commit(s) /\ UNCHANGED <<hist, admin>>
    \/ CommitOrdered(OrderedSlot)
    \/ Replay

SpecOrder == Init /\ [][NextOrder]_vars

(***************************************************************************)
(* Foreign metadata: runs of both configurations one after the other,      *)
(* while users rename their events and put shared properties of their own  *)
(* on the copies.                                                          *)
(***************************************************************************)
NextMeta ==
    \/ \E id \in Ids :
          /\ edits < MetaEdits /\ NoneActive
          /\ UserRenameNative(id) /\ UNCHANGED <<hist, admin>>
    \/ \E id \in Ids :
          /\ edits < MetaEdits /\ NoneActive
          /\ UserTagCopy(id) /\ UNCHANGED <<hist, admin>>
    \/ \E c \in Configs :
          /\ started < MetaRuns /\ NoneActive
          /\ TriggerSync(c) /\ UNCHANGED <<hist, admin>>
    \/ \E s \in Manual : FetchSource(s) /\ UNCHANGED <<hist, admin>>
    \/ \E s \in Manual : FetchDest(s) /\ UNCHANGED <<hist, admin>>
    \/ \E s \in Manual : SkipEvent(s) /\ UNCHANGED <<hist, admin>>
    \/ \E s \in Manual : KeepCopy(s) /\ UNCHANGED <<hist, admin>>
    \/ \E s \in Manual : UpdateCopy(s) /\ UNCHANGED <<hist, admin>>
    \/ \E s \in Manual : InsertCopy(s) /\ UNCHANGED <<hist, admin>>
    \/ \E s \in Manual : Commit(s) /\ UNCHANGED <<hist, admin>>

SpecMeta == Init /\ [][NextMeta]_vars

(***************************************************************************)
(* Scheduling: the process starts, configurations are created, updated and *)
(* deleted through the API (privacy mode left alone), and the process      *)
(* restarts.                                                               *)
(***************************************************************************)
InitSched ==
    /\ events = <<NativeEvent(1, "A", None, 0)>>
    /\ clock = 1
    /\ mappings = {}
    /\ privacy = [c \in Configs |-> FALSE]
    /\ run = [s \in Slots |-> IdleRun(s[1])]
    /\ edits = 0
    /\ faults = 0
    /\ started = 0
    /\ hist = <<>>
    /\ tokens = AccountTypes
    /\ refused = 0
    /\ config = [c \in Configs |-> NoConfig]
    /\ jobs = {}
    /\ running = FALSE

NextSched ==
    \/ Startup
    \/ Shutdown
    \/ \E c \in Configs, e \in BOOLEAN, cron \in Crons \cup {None},
          tz \in Tzs :
          CreateSyncConfig(c, FALSE, e, cron, tz)
    \/ \E c \in Configs, a, e \in {"true", "false", None},
          cron \in Crons \cup {None}, tz \in Tzs \cup {None} :
          UpdateSyncConfig(c, None, a, e, cron, tz)
    \/ \E c \in Configs : DeleteSyncConfig(c)

SpecSched == InitSched /\ [][NextSched]_vars

(***************************************************************************)
(* The job table on its own: add_job and remove_job called on a running    *)
(* scheduler with any arguments.                                           *)
(***************************************************************************)
InitJobs ==
    /\ events = <<NativeEvent(1, "A", None, 0)>>
    /\ clock = 1
    /\ mappings = {}
    /\ privacy = [c \in Configs |-> FALSE]
    /\ run = [s \in Slots |-> IdleRun(s[1])]
    /\ edits = 0
    /\ faults = 0
    /\ started = 0
    /\ hist = [c \in Configs |->
                  [last |-> NoCall, returned |-> NoCall, removes |-> 0]]
    /\ tokens = AccountTypes
    /\ refused = 0
    /\ config = [c \in Configs |-> NoConfig]
    /\ jobs = {}
    /\ running = TRUE

NextJobs ==
    \/ \E c \in Configs, cron \in Crons, tz \in Tzs :
          edits < JobOps /\ AddJob(c, cron, tz)
    \/ \E c \in Configs : edits < JobOps /\ RemoveJob(c)

SpecJobs == InitJobs /\ [][NextJobs]_vars

(***************************************************************************)
(* The scheduler object from its construction: start, add_job, remove_job  *)
(* and shutdown in any order, add_job and remove_job also while it is not  *)
(* running.                                                                *)
(***************************************************************************)
InitStore ==
    /\ events = <<NativeEvent(1, "A", None, 0)>>
    /\ clock = 1
    /\ mappings = {}
    /\ privacy = [c \in Configs |-> FALSE]
    /\ run = [s \in Slots |-> IdleRun(s[1])]
    /\ edits = 0
    /\ faults = 0
    /\ started = 0
    /\ hist = [c \in Configs |->
                  [last |-> NoCall, returned |-> NoCall, removes |-> 0]]
    /\ tokens = AccountTypes
    /\ refused = 0
    /\ config = [c \in Configs |-> NoConfig]
    /\ jobs = {}
    /\ running = FALSE

NextStore ==
    \/ Start
    \/ Shutdown
    \/ \E c \in Configs, cron \in Crons, tz \in Tzs :
          edits < StoreOps /\ AddJob(c, cron, tz)
    \/ \E c \in Configs : edits < StoreOps /\ RemoveJob(c)

SpecStore == InitStore /\ [][NextStore]_vars

(***************************************************************************)
(* Credentials over time: the user reconnects an account (the stored token *)
(* of that account type is replaced), jobs are registered again, fires and *)
(* manual triggers start runs.  hist keeps the version of the token stored *)
(* for each account type, the versions stored when the job of each         *)
(* configuration was last registered, and the credentials each run was     *)
(* given as source_creds and dest_creds.                                   *)
(***************************************************************************)
sync_direction(c) ==
    IF c = "c1" THEN "bidirectional_a_to_b" ELSE "bidirectional_b_to_a"

Creds(account_type, version) ==
    [account_type |-> account_type, version |-> version]

NoCreds == [source_creds |-> Creds(None, 0), dest_creds |-> Creds(None, 0)]

\* get_credentials_from_db(user, account_type): the token now stored.
get_credentials_from_db(account_type) ==
    Creds(account_type, hist.version[account_type])

\* The credentials scheduled_sync_job hands to run_sync_task.
scheduled_sync_job_registered(c) ==
    [source_creds |-> Creds("source", hist.registered[c]["source"]),
     dest_creds |-> Creds("destination", hist.registered[c]["destination"])]

scheduled_sync_job(c) ==
    [source_creds |-> get_credentials_from_db("source"),
     dest_creds |-> get_credentials_from_db("destination")]

\* oauth_callback for an account type that has a token: the row is replaced.
Reconnect(account_type) ==
    /\ tokens' = tokens \cup {account_type}
    /\ hist' = [hist EXCEPT !.version[account_type] = @ + 1]
    /\ edits' = edits + 1
    /\ UNCHANGED <<events, clock, mappings, privacy, run, faults, started,
                   refused, config, jobs, running>>

\* update_sync_config with a new cron expression: the row is committed and
\* add_job is called with the ids of the configuration and of the user.
Reschedule(c, auto_sync_cron) ==
    /\ running
    /\ config[c] # NoConfig /\ config[c].is_active
    /\ config[c].auto_sync_enabled
    /\ validate_cron_expression(auto_sync_cron)
    /\ config' = [config EXCEPT ![c].auto_sync_cron = auto_sync_cron]
    /\ jobs' = add_job(jobs, c, auto_sync_cron, config[c].auto_sync_timezone)
    /\ hist' = [hist EXCEPT !.registered[c] = hist.version]
    /\ edits' = edits + 1
    /\ UNCHANGED <<events, clock, mappings, privacy, run, faults, started,
                   tokens, refused, running>>

\* A cron fire of job sync_<c> that finds both tokens.
ScheduledFireWith(c) ==
    /\ ScheduledFire(c)
    /\ hist' = [hist EXCEPT !.used[<<c, "scheduled">>] = scheduled_sync_job(c)]
    /\ UNCHANGED admin

\* trigger_sync with trigger_both_directions: the configuration's task gets
\* the two tokens as read; when the paired configuration is active a second
\* task is added for it, with the two tokens exchanged.
TriggerSyncBoth(c, trigger_both_directions) ==
    LET s == <<c, "manual">>
        p == <<PairedConfig(c), "manual">>
        both == /\ trigger_both_directions
                /\ config[PairedConfig(c)] # NoConfig
                /\ config[PairedConfig(c)].is_active
        source_creds == get_credentials_from_db("source")
        dest_creds == get_credentials_from_db("destination")
    IN  /\ config[c] # NoConfig /\ config[c].is_active
        /\ HasCredentials
        /\ ~Active(s) /\ ~Active(p)
        /\ run' = [x \in Slots |->
                      IF x = s \/ (both /\ x = p) THEN Begun(x) ELSE run[x]]
        /\ started' = started + (IF both THEN 2 ELSE 1)
        /\ hist' = [hist EXCEPT
                      !.used = [x \in Slots |->
                          IF x = s
                          THEN [source_creds |-> source_creds,
                                dest_creds |-> dest_creds]
                          ELSE IF both /\ x = p
                          THEN [source_creds |-> dest_creds,
                                dest_creds |-> source_creds]
                          ELSE @[x]]]
        /\ UNCHANGED <<events, clock, mappings, privacy, edits, faults, admin>>

InitRotate ==
    /\ events = <<NativeEvent(1, "A", None, 0)>>
    /\ clock = 1
    /\ mappings = {}
    /\ privacy = [c \in Configs |-> FALSE]
    /\ run = [s \in Slots |-> IdleRun(s[1])]
    /\ edits = 0
    /\ faults = 0
    /\ started = 0
    /\ hist = [version |-> [a \in AccountTypes |-> 1],
               registered |-> [c \in Configs |-> [a \in AccountTypes |-> 1]],
               used |-> [s \in Slots |-> NoCreds]]
    /\ tokens = AccountTypes
    /\ refused = 0
    /\ config = [c \in Configs |-> StoredConfig(TRUE, TRUE, Hourly, "UTC")]
    /\ jobs = {Job(c, Hourly, "UTC") : c \in Configs}
    /\ running = TRUE

NextRotate ==
    \/ \E a \in AccountTypes : edits < RotateOps /\ Reconnect(a)
    \/ \E c \in Configs, cron \in {Hourly, Daily} :
          edits < RotateOps /\ Reschedule(c, cron)
    \/ \E c \in Configs :
          started < RotateRuns /\ NoneActive /\ ScheduledFireWith(c)
    \/ \E c \in Configs, b \in BOOLEAN :
          started < RotateRuns /\ NoneActive /\ TriggerSyncBoth(c, b)
    \/ \E s \in Slots : FetchSource(s) /\ UNCHANGED <<hist, admin>>
    \/ \E s \in Slots : FetchDest(s) /\ UNCHANGED <<hist, admin>>
    \/ \E s \in Slots : SkipEvent(s) /\ UNCHANGED <<hist, admin>>
    \/ \E s \in Slots : KeepCopy(s) /\ UNCHANGED <<hist, admin>>
    \/ \E s \in Slots : InsertCopy(s) /\ UNCHANGED <<hist, admin>>
    \/ \E s \in Slots : Commit(s) /\ UNCHANGED <<hist, admin>>

SpecRotate == InitRotate /\ [][NextRotate]_vars

(***************************************************************************)
(* Conflict detection: events of calendar A whose stored origin is the     *)
(* destination calendar B, next to the event whose origin is A; the author *)
(* and the owner of the destination calendar rename events and copies      *)
(* between and during the runs of c1.                                      *)
(***************************************************************************)
NextConflict ==
    \/ edits < ConflictEdits /\ UserCreate("A", "B") /\ UNCHANGED <<hist, admin>>
    \/ \E id \in Ids :
          edits < ConflictEdits /\ UserRenameNative(id) /\ UNCHANGED <<hist, admin>>
    \/ \E id \in Ids :
          edits < ConflictEdits /\ UserRenameCopy(id) /\ UNCHANGED <<hist, admin>>
    \/ started < ConflictRuns /\ NoneActive /\ TriggerSync("c1") /\ UNCHANGED <<hist, admin>>
    \/ FetchSource(<<"c1", "manual">>) /\ UNCHANGED <<hist, admin>>
    \/ FetchDest(<<"c1", "manual">>) /\ UNCHANGED <<hist, admin>>
    \/ KeepCopy(<<"c1", "manual">>) /\ UNCHANGED <<hist, admin>>
    \/ UpdateCopy(<<"c1", "manual">>) /\ UNCHANGED <<hist, admin>>
    \/ InsertCopy(<<"c1", "manual">>) /\ UNCHANGED <<hist, admin>>
    \/ Commit(<<"c1", "manual">>) /\ UNCHANGED <<hist, admin>>

SpecConflict == Init /\ [][NextConflict]_vars

(***************************************************************************)
(* Stored origins: events of calendar A that carry the destination         *)
(* calendar as origin; the author renames them, the owner of the           *)
(* destination calendar deletes copies, between and during the runs of c1. *)
(***************************************************************************)
NextKept ==
    \/ edits < KeptEdits /\ UserCreate("A", "B") /\ UNCHANGED <<hist, admin>>
    \/ \E id \in Ids :
          edits < KeptEdits /\ UserRenameNative(id) /\ UNCHANGED <<hist, admin>>
    \/ \E id \in Ids :
          edits < KeptEdits /\ UserCancelCopy(id) /\ UNCHANGED <<hist, admin>>
    \/ started < KeptRuns /\ NoneActive /\ TriggerSync("c1") /\ UNCHANGED <<hist, admin>>
    \/ FetchSource(<<"c1", "manual">>) /\ UNCHANGED <<hist, admin>>
    \/ FetchDest(<<"c1", "manual">>) /\ UNCHANGED <<hist, admin>>
    \/ KeepCopy(<<"c1", "manual">>) /\ UNCHANGED <<hist, admin>>
    \/ UpdateCopy(<<"c1", "manual">>) /\ UNCHANGED <<hist, admin>>
    \/ RecreateCopy(<<"c1", "manual">>) /\ UNCHANGED <<hist, admin>>
    \/ InsertCopy(<<"c1", "manual">>) /\ UNCHANGED <<hist, admin>>
    \/ Commit(<<"c1", "manual">>) /\ UNCHANGED <<hist, admin>>

SpecKept == Init /\ [][NextKept]_vars

\* Two overlapping runs of c1 next to native events in both calendars: a copy
\* made by one run for an event the other run did not fetch.  The scheduled
\* run starts after the manual run has listed its source events.
NativeEdits == 2
NativeRuns == 2

InitNative ==
    /\ events = <<NativeEvent(1, "A", None, 0), NativeEvent(2, "B", None, 1)>>
    /\ clock = 2
    /\ mappings = {}
    /\ privacy = [c \in Configs |-> c = "c2"]
    /\ run = [s \in Slots |-> IdleRun(s[1])]
    /\ edits = 0
    /\ faults = 0
    /\ started = 0
    /\ hist = <<>>
    /\ tokens = AccountTypes
    /\ refused = 0
    /\ config = [c \in Configs |-> StoredConfig(TRUE, TRUE, Hourly, "UTC")]
    /\ jobs = {Job(c, Hourly, "UTC") : c \in Configs}
    /\ running = TRUE

NextNative ==
    \/ edits < NativeEdits /\ UserCreate("A", None) /\ UNCHANGED <<hist, admin>>
    \/ \E id \in Ids :
          edits < NativeEdits /\ UserRenameCopy(id) /\ UNCHANGED <<hist, admin>>
    \/ \E id \in Ids :
          edits < NativeEdits /\ UserCancelNative(id) /\ UNCHANGED <<hist, admin>>
    \/ started < NativeRuns /\ NoneActive /\ TriggerSync("c1") /\ UNCHANGED <<hist, admin>>
    \/ /\ started < NativeRuns /\ run[<<"c1", "manual">>].pc = "fetch_dst"
       /\ ScheduledFire("c1") /\ UNCHANGED <<hist, admin>>
    \/ \E s \in SlotsOf("c1") : FetchSource(s) /\ UNCHANGED <<hist, admin>>
    \/ \E s \in SlotsOf("c1") : FetchDest(s) /\ UNCHANGED <<hist, admin>>
    \/ \E s \in SlotsOf("c1") : SkipEvent(s) /\ UNCHANGED <<hist, admin>>
    \/ \E s \in SlotsOf("c1") : DeleteCopy(s) /\ UNCHANGED <<hist, admin>>
    \/ \E s \in SlotsOf("c1") : KeepCopy(s) /\ UNCHANGED <<hist, admin>>
    \/ \E s \in SlotsOf("c1") : UpdateCopy(s) /\ UNCHANGED <<hist, admin>>
    \/ \E s \in SlotsOf("c1") : InsertCopy(s) /\ UNCHANGED <<hist, admin>>
    \/ \E s \in SlotsOf("c1") : Commit(s) /\ UNCHANGED <<hist, admin>>

SpecNative == InitNative /\ [][NextNative]_vars

\* Invocations against configurations that are deactivated, deleted or
\* unpaired in between: a fired job runs scheduled_sync_job after the
\* scheduler handed it to the executor, a request runs trigger_sync.  hist
\* holds the fires handed out and how the last invocation ended.
InvokeOps == 2

NoInvocation ==
    [kind |-> "none", cfg |-> "none", both |-> FALSE, answer |-> "none",
     resolved |-> FALSE]

Invocation(kind, c, both, answer, resolved) ==
    [kind |-> kind, cfg |-> c, both |-> both, answer |-> answer,
     resolved |-> resolved]

\* scheduler.py 48-51, 99-107: the scheduler hands a due job of a registered
\* configuration to its executor.
SubmitJob(c) ==
    /\ running /\ HasJob(c)
    /\ ~hist.pending[c]
    /\ hist' = [hist EXCEPT !.pending[c] = TRUE]
    /\ UNCHANGED <<events, clock, mappings, privacy, run, edits, faults,
                   started, admin>>

\* Variant of the query of scheduler.py 181-184 without the is_active filter.
ActiveConfig_stored(c) == config[c] # NoConfig

\* scheduler.py 181-184: the stored row of the configuration, if active.
ActiveConfig(c) == config[c] # NoConfig /\ config[c].is_active

\* scheduler.py 164-248: the job function, run by the executor.
ScheduledSyncJob(c) ==
    LET s == <<c, "scheduled">>
        Ended(answer, resolved) ==
            hist' = [hist EXCEPT
                        !.pending[c] = FALSE,
                        !.last = Invocation("scheduled", c, FALSE, answer,
                                            resolved),
                        !.n = @ + 1]
    IN  /\ hist.pending[c]
        /\ ~Active(s)
        /\ IF ~ActiveConfig(c)
           THEN /\ Ended("skipped", FALSE)
                /\ UNCHANGED <<run, started>>
           ELSE IF ~HasCredentials
           THEN /\ Ended("failed", TRUE)
                /\ run' = [run EXCEPT ![s] =
                              [IdleRun(c) EXCEPT !.pc = "done",
                                  !.log = "failed",
                                  !.error = "OAuth credentials not found"]]
                /\ started' = started + 1
           ELSE /\ Ended("started", TRUE)
                /\ run' = [run EXCEPT ![s] = Begun(s)]
                /\ started' = started + 1
        /\ UNCHANGED <<events, clock, mappings, privacy, edits, faults, admin>>

\* Variant of PairedRun that starts the paired direction whenever the flag
\* is set.
PairedRun_unchecked(c, trigger_both_directions) == trigger_both_directions

\* sync.py 403-409: the paired direction is run as well.
PairedRun(c, trigger_both_directions) ==
    /\ trigger_both_directions
    /\ config[PairedConfig(c)] # NoConfig
    /\ config[PairedConfig(c)].is_active

\* sync.py 337-442: the manual trigger request.
TriggerRequest(c, trigger_both_directions) ==
    LET s == <<c, "manual">>
        p == <<PairedConfig(c), "manual">>
        Answered(answer, resolved) ==
            hist' = [hist EXCEPT
                        !.last = Invocation("manual", c,
                                            trigger_both_directions, answer,
                                            resolved),
                        !.n = @ + 1]
    IN  /\ ~Active(s) /\ ~Active(p)
        /\ IF config[c] = NoConfig
           THEN /\ Answered("404", FALSE)
                /\ UNCHANGED <<run, started>>
           ELSE IF ~config[c].is_active
           THEN /\ Answered("400", FALSE)
                /\ UNCHANGED <<run, started>>
           ELSE IF ~HasCredentials
           THEN /\ Answered("400", TRUE)
                /\ UNCHANGED <<run, started>>
           ELSE /\ Answered("200", TRUE)
                /\ run' = [x \in Slots |->
                              IF \/ x = s
                                 \/ x = p /\ PairedRun(c, trigger_both_directions)
                              THEN Begun(x) ELSE run[x]]
                /\ started' = started +
                      (IF PairedRun(c, trigger_both_directions) THEN 2 ELSE 1)
        /\ UNCHANGED <<events, clock, mappings, privacy, edits, faults, admin>>

InitInvoke ==
    /\ events = <<NativeEvent(1, "A", None, 0)>>
    /\ clock = 1
    /\ mappings = {}
    /\ privacy = [c \in Configs |-> FALSE]
    /\ run = [s \in Slots |-> IdleRun(s[1])]
    /\ edits = 0
    /\ faults = 0
    /\ started = 0
    /\ hist = [pending |-> [c \in Configs |-> FALSE],
               last |-> NoInvocation,
               n |-> 0]
    /\ tokens = {"source"}
    /\ refused = 0
    /\ config = [c \in Configs |-> StoredConfig(TRUE, TRUE, Hourly, "UTC")]
    /\ jobs = {Job(c, Hourly, "UTC") : c \in Configs}
    /\ running = TRUE

NextInvoke ==
    \/ OAuthCallback("destination")
    \/ \E c \in Configs, a \in {"true", "false"} :
          UpdateSyncConfig(c, None, a, None, None, None)
    \/ \E c \in Configs : DeleteSyncConfig(c)
    \/ \E c \in Configs : SubmitJob(c)
    \/ \E c \in Configs : hist.n < InvokeOps /\ ScheduledSyncJob(c)
    \/ \E c \in Configs, b \in BOOLEAN :
          hist.n < InvokeOps /\ TriggerRequest(c, b)
    \/ \E s \in Slots : FetchSource(s) /\ UNCHANGED <<hist, admin>>
    \/ \E s \in Slots : FetchDest(s) /\ UNCHANGED <<hist, admin>>
    \/ \E s \in Slots : SkipEvent(s) /\ UNCHANGED <<hist, admin>>
    \/ \E s \in Slots : KeepCopy(s) /\ UNCHANGED <<hist, admin>>
    \/ \E s \in Slots : InsertCopy(s) /\ UNCHANGED <<hist, admin>>
    \/ \E s \in Slots : Commit(s) /\ UNCHANGED <<hist, admin>>

SpecInvoke == InitInvoke /\ [][NextInvoke]_vars

\* Privacy mode is switched on for c1 between runs; hist holds whether that
\* happened and how many runs had been started by then.
PrivacyEdits == 3
PrivacyRuns == 3

\* sync.py 271-334 with only privacy_mode_enabled in the request: the row
\* is updated, the schedule is left alone.
EnablePrivacy(c) ==
    /\ running
    /\ config[c] # NoConfig
    /\ ~privacy[c]
    /\ privacy' = [privacy EXCEPT ![c] = TRUE]
    /\ hist' = [toggled |-> TRUE, at |-> started]
    /\ UNCHANGED <<events, clock, mappings, run, edits, faults, started, admin>>

InitPrivacy ==
    /\ events = <<NativeEvent(1, "A", None, 0)>>
    /\ clock = 1
    /\ mappings = {}
    /\ privacy = [c \in Configs |-> FALSE]
    /\ run = [s \in Slots |-> IdleRun(s[1])]
    /\ edits = 0
    /\ faults = 0
    /\ started = 0
    /\ hist = [toggled |-> FALSE, at |-> 0]
    /\ tokens = AccountTypes
    /\ refused = 0
    /\ config = [c \in Configs |-> StoredConfig(TRUE, TRUE, Hourly, "UTC")]
    /\ jobs = {Job(c, Hourly, "UTC") : c \in Configs}
    /\ running = TRUE

NextPrivacy ==
    \/ edits < PrivacyEdits /\ UserCreate("A", "B") /\ UNCHANGED <<hist, admin>>
    \/ \E id \in Ids :
          edits < PrivacyEdits /\ UserRenameNative(id) /\ UNCHANGED <<hist, admin>>
    \/ \E id \in Ids :
          edits < PrivacyEdits /\ UserCancelNative(id) /\ UNCHANGED <<hist, admin>>
    \/ \E id \in Ids :
          edits < PrivacyEdits /\ UserRenameCopy(id) /\ UNCHANGED <<hist, admin>>
    \/ \E id \in Ids :
          edits < PrivacyEdits /\ UserCancelCopy(id) /\ UNCHANGED <<hist, admin>>
    \/ NoneActive /\ EnablePrivacy("c1")
    \/ started < PrivacyRuns /\ NoneActive /\ TriggerSync("c1") /\ UNCHANGED <<hist, admin>>
    \/ FetchSource(<<"c1", "manual">>) /\ UNCHANGED <<hist, admin>>
    \/ FetchDest(<<"c1", "manual">>) /\ UNCHANGED <<hist, admin>>
    \/ SkipEvent(<<"c1", "manual">>) /\ UNCHANGED <<hist, admin>>
    \/ DeleteCopy(<<"c1", "manual">>) /\ UNCHANGED <<hist, admin>>
    \/ KeepCopy(<<"c1", "manual">>) /\ UNCHANGED <<hist, admin>>
    \/ UpdateCopy(<<"c1", "manual">>) /\ UNCHANGED <<hist, admin>>
    \/ RecreateCopy(<<"c1", "manual">>) /\ UNCHANGED <<hist, admin>>
    \/ InsertCopy(<<"c1", "manual">>) /\ UNCHANGED <<hist, admin>>
    \/ Commit(<<"c1", "manual">>) /\ UNCHANGED <<hist, admin>>

SpecPrivacy == InitPrivacy /\ [][NextPrivacy]_vars

\* start() called whatever the state of the scheduler.  hist counts the
\* calls and holds the jobs of schedulers that were started, then replaced
\* without being shut down.
StartOps == 2

\* scheduler.py 39-63: a new AsyncIOScheduler with an empty MemoryJobStore
\* replaces self.scheduler and is started; the one it replaces is not shut
\* down.
StartScheduler ==
    /\ running' = TRUE
    /\ jobs' = {}
    /\ hist' = [starts |-> hist.starts + 1,
                orphaned |-> hist.orphaned \cup (IF running THEN jobs ELSE {})]
    /\ UNCHANGED <<engine, privacy, edits, config>>

\* scheduler.py 122-149 on the running scheduler.
Rehydrate ==
    /\ running
    /\ jobs' = load_all_jobs_from_db(jobs, config)
    /\ UNCHANGED <<engine, privacy, edits, hist, config, running>>

InitRestart ==
    /\ events = <<NativeEvent(1, "A", None, 0)>>
    /\ clock = 1
    /\ mappings = {}
    /\ privacy = [c \in Configs |-> FALSE]
    /\ run = [s \in Slots |-> IdleRun(s[1])]
    /\ edits = 0
    /\ faults = 0
    /\ started = 0
    /\ hist = [starts |-> 0, orphaned |-> {}]
    /\ tokens = AccountTypes
    /\ refused = 0
    /\ config = [c \in Configs |-> StoredConfig(TRUE, TRUE, Hourly, "UTC")]
    /\ jobs = {}
    /\ running = FALSE

NextRestart ==
    \/ hist.starts < StartOps /\ StartScheduler
    \/ Rehydrate
    \/ Shutdown
    \/ \E c \in Configs, a, e \in {"true", "false", None},
          cron \in {Hourly, Daily, None} :
          UpdateSyncConfig(c, None, a, e, cron, None)

SpecRestart == InitRestart /\ [][NextRestart]_vars

(***************************************************************************)
(* Copies: runs of c1 one after the other, while the author of the source  *)
(* events renames and cancels them and the owner of the destination        *)
(* calendar deletes copies, between runs and during them; no remote        *)
(* failure.                                                                *)
(***************************************************************************)
NextCopies ==
    \/ \E id \in Ids :
          edits < CopyEdits /\ UserRenameNative(id) /\ UNCHANGED <<hist, admin>>
    \/ \E id \in Ids :
          edits < CopyEdits /\ UserCancelNative(id) /\ UNCHANGED <<hist, admin>>
    \/ \E id \in Ids :
          edits < CopyEdits /\ UserCancelCopy(id) /\ UNCHANGED <<hist, admin>>
    \/ started < CopyRuns /\ TriggerSync("c1") /\ UNCHANGED <<hist, admin>>
    \/ FetchSource(<<"c1", "manual">>) /\ UNCHANGED <<hist, admin>>
    \/ FetchDest(<<"c1", "manual">>) /\ UNCHANGED <<hist, admin>>
    \/ DeleteCopy(<<"c1", "manual">>) /\ UNCHANGED <<hist, admin>>
    \/ KeepCopy(<<"c1", "manual">>) /\ UNCHANGED <<hist, admin>>
    \/ UpdateCopy(<<"c1", "manual">>) /\ UNCHANGED <<hist, admin>>
    \/ RecreateCopy(<<"c1", "manual">>) /\ UNCHANGED <<hist, admin>>
    \/ InsertCopy(<<"c1", "manual">>) /\ UNCHANGED <<hist, admin>>
    \/ Commit(<<"c1", "manual">>) /\ UNCHANGED <<hist, admin>>

SpecCopies == Init /\ [][NextCopies]_vars

(***************************************************************************)
(* Pairs: configurations are created, one-way or as a bidirectional pair,  *)
(* and deleted.  The rows carry their calendars, their direction and       *)
(* paired_config_id; a new row gets an id no row has.                      *)
(***************************************************************************)
RowIds == {"c1", "c2", "c3"}

SyncConfig(source_calendar_id, dest_calendar_id, direction, paired_config_id, auto_sync_enabled, auto_sync_cron, auto_sync_timezone) ==
    [is_active |-> TRUE, auto_sync_enabled |-> auto_sync_enabled,
     auto_sync_cron |-> auto_sync_cron,
     auto_sync_timezone |-> auto_sync_timezone,
     source_calendar_id |-> source_calendar_id,
     dest_calendar_id |-> dest_calendar_id,
     sync_direction |-> direction,
     paired_config_id |-> paired_config_id]

Exists(c) == config[c] # NoConfig

\* The validators of CreateSyncConfigRequest.
CreateSyncConfigRequest(auto_sync_enabled, auto_sync_cron, auto_sync_timezone) ==
    /\ Truthy(auto_sync_cron) => validate_cron_expression(auto_sync_cron)
    /\ validate_timezone(auto_sync_timezone)
    /\ auto_sync_enabled => Truthy(auto_sync_cron)

\* create_sync_config with enable_bidirectional: the A->B row, the B->A row
\* with the calendars reversed and paired_config_id pointing to the first,
\* the first row's paired_config_id set to the second, one commit, then
\* add_job for both.
CreateBidirectional(a, b, source_calendar_id, dest_calendar_id, auto_sync_enabled, auto_sync_cron, auto_sync_timezone) ==
    /\ running
    /\ a # b /\ ~Exists(a) /\ ~Exists(b)
    /\ CreateSyncConfigRequest(auto_sync_enabled, auto_sync_cron,
                               auto_sync_timezone)
    /\ config' = [config EXCEPT
                    ![a] = SyncConfig(source_calendar_id, dest_calendar_id,
                                      "bidirectional_a_to_b", b,
                                      auto_sync_enabled, auto_sync_cron,
                                      auto_sync_timezone),
                    ![b] = SyncConfig(dest_calendar_id, source_calendar_id,
                                      "bidirectional_b_to_a", a,
                                      auto_sync_enabled, auto_sync_cron,
                                      auto_sync_timezone)]
    /\ jobs' = IF auto_sync_enabled /\ Truthy(auto_sync_cron)
               THEN add_job(add_job(jobs, a, auto_sync_cron,
                                    auto_sync_timezone),
                            b, auto_sync_cron, auto_sync_timezone)
               ELSE jobs
    /\ edits' = edits + 1
    /\ UNCHANGED <<engine, privacy, hist, running>>

\* create_sync_config without enable_bidirectional.
CreateOneWay(c, source_calendar_id, dest_calendar_id, auto_sync_enabled, auto_sync_cron, auto_sync_timezone) ==
    /\ running
    /\ ~Exists(c)
    /\ CreateSyncConfigRequest(auto_sync_enabled, auto_sync_cron,
                               auto_sync_timezone)
    /\ config' = [config EXCEPT
                    ![c] = SyncConfig(source_calendar_id, dest_calendar_id,
                                      "one_way", None, auto_sync_enabled,
                                      auto_sync_cron, auto_sync_timezone)]
    /\ jobs' = IF auto_sync_enabled /\ Truthy(auto_sync_cron)
               THEN add_job(jobs, c, auto_sync_cron, auto_sync_timezone)
               ELSE jobs
    /\ edits' = edits + 1
    /\ UNCHANGED <<engine, privacy, hist, running>>

\* The foreign key of paired_config_id, ondelete SET NULL: the rows that
\* point to the deleted row c.
ondelete_no_action(cfg, c) ==
    [x \in DOMAIN cfg |-> IF x = c THEN NoConfig ELSE cfg[x]]

ondelete_set_null(cfg, c) ==
    [x \in DOMAIN cfg |->
        IF x = c THEN NoConfig
        ELSE IF cfg[x] # NoConfig /\ cfg[x].paired_config_id = c
        THEN [cfg[x] EXCEPT !.paired_config_id = None]
        ELSE cfg[x]]

\* delete_sync_config on a row with paired_config_id: the job is removed,
\* the row is deleted and the database clears the references to it.
DeleteRow(c) ==
    /\ Exists(c)
    /\ jobs' = remove_job(jobs, c)
    /\ config' = ondelete_set_null(config, c)
    /\ mappings' = {m \in mappings : m.sync_config_id # c}
    /\ edits' = edits + 1
    /\ UNCHANGED <<events, clock, privacy, run, faults, started, hist,
                   tokens, refused, running>>

InitPairing ==
    /\ events = <<NativeEvent(1, "A", None, 0)>>
    /\ clock = 1
    /\ mappings = {}
    /\ privacy = [c \in Configs |-> FALSE]
    /\ run = [s \in Slots |-> IdleRun(s[1])]
    /\ edits = 0
    /\ faults = 0
    /\ started = 0
    /\ hist = <<>>
    /\ tokens = AccountTypes
    /\ refused = 0
    /\ config = [c \in RowIds |-> NoConfig]
    /\ jobs = {}
    /\ running = TRUE

NextPairing ==
    \/ \E a, b \in RowIds, src, dst \in Cals, e \in BOOLEAN,
          cron \in {Hourly, WithSeconds, None} :
          edits < PairingOps /\ CreateBidirectional(a, b, src, dst, e, cron, "UTC")
    \/ \E c \in RowIds, src, dst \in Cals, e \in BOOLEAN,
          cron \in {Hourly, WithSeconds, None} :
          edits < PairingOps /\ CreateOneWay(c, src, dst, e, cron, "UTC")
    \/ \E c \in RowIds : edits < PairingOps /\ DeleteRow(c)

SpecPairing == InitPairing /\ [][NextPairing]_vars

(***************************************************************************)
(* Fire times.  Time is in seconds and passes in steps of Tick, whether    *)
(* the process is up or not; a running scheduler may be late in waking up. *)
(* hist keeps the time now, the time up at which the process last started, *)
(* the next_run_time of each job, and the fires that were executed: the    *)
(* configuration, the fire time due, the time at of the execution, and     *)
(* whether the fire time lay before the start of the process.              *)
(***************************************************************************)
Tick == 150

\* job_defaults of start().
misfire_grace_time_off == 12 * 300

misfire_grace_time == 300

coalesce == TRUE

\* The period of a cron expression (the expressions from_crontab accepts).
Period(cron) == IF cron = Hourly THEN 3600 ELSE 86400

\* CronTrigger.get_next_fire_time: the first fire time at or after t.
next_fire_time(cron, t) == ((t + Period(cron) - 1) \div Period(cron)) * Period(cron)

\* Job._get_run_times(now): the fire times from next_run_time up to now.
get_run_times(cron, next, t) == {d \in next..t : d % Period(cron) = 0}

Latest(S) == CHOOSE d \in S : \A e \in S : e <= d

\* A job without next_run_time (none is stored for the id).
NoRunTime == -1

JobOf(c) == CHOOSE j \in jobs : j.id = JobId(c)

TimePasses ==
    /\ hist.now < TimeSteps * Tick
    /\ hist' = [hist EXCEPT !.now = @ + Tick]
    /\ UNCHANGED <<engine, privacy, edits, config, jobs, running>>

\* lifespan at the start of the process: start(), then
\* load_all_jobs_from_db; each add_job makes a job whose next_run_time is
\* the trigger's first fire time from now on.
StartAt ==
    /\ ~running
    /\ running' = TRUE
    /\ UNCHANGED <<engine, privacy, edits, config>>
    /\ jobs' = load_all_jobs_from_db({}, config)'
    /\ hist' = [hist EXCEPT
                  !.up = hist.now,
                  !.next_run_time =
                      [c \in Configs |->
                          IF \E j \in jobs' : j.id = JobId(c)
                          THEN next_fire_time(
                                  (CHOOSE j \in jobs' : j.id = JobId(c)).cron,
                                  hist.now)
                          ELSE NoRunTime]]

\* lifespan at the end of the process: the jobs and their next_run_time go
\* with the in-memory store.
ShutdownAt ==
    /\ running
    /\ running' = FALSE
    /\ jobs' = {}
    /\ hist' = [hist EXCEPT !.next_run_time = [c \in Configs |-> NoRunTime]]
    /\ UNCHANGED <<engine, privacy, edits, config>>

\* The scheduler wakes up and finds the job of c due: with coalesce only
\* the latest of the run times is submitted; the executor drops a run time
\* older than misfire_grace_time and calls scheduled_sync_job for the
\* others; next_run_time becomes the first fire time after now.
ProcessJobs(c) ==
    /\ running /\ HasJob(c)
    /\ hist.next_run_time[c] # NoRunTime /\ hist.next_run_time[c] <= hist.now
    /\ LET cron      == JobOf(c).cron
           all       == get_run_times(cron, hist.next_run_time[c], hist.now)
           run_times == IF coalesce THEN {Latest(all)} ELSE all
           executed  == {d \in run_times : hist.now - d <= misfire_grace_time}
       IN  hist' = [hist EXCEPT
                      !.next_run_time[c] = next_fire_time(cron, hist.now + 1),
                      !.fires = @ \cup
                          {[config |-> c, due |-> d, at |-> hist.now,
                            missed_down |-> d < hist.up] : d \in executed}]
    /\ UNCHANGED <<engine, privacy, edits, config, jobs, running>>

InitMisfire ==
    /\ events = <<NativeEvent(1, "A", None, 0)>>
    /\ clock = 1
    /\ mappings = {}
    /\ privacy = [c \in Configs |-> FALSE]
    /\ run = [s \in Slots |-> IdleRun(s[1])]
    /\ edits = 0
    /\ faults = 0
    /\ started = 0
    /\ hist = [now |-> 0, up |-> 0, fires |-> {},
               next_run_time |-> [c \in Configs |-> NoRunTime]]
    /\ tokens = AccountTypes
    /\ refused = 0
    /\ config = [c \in Configs |->
                    IF c = "c1" THEN StoredConfig(TRUE, TRUE, Hourly, "UTC")
                    ELSE StoredConfig(TRUE, FALSE, None, "UTC")]
    /\ jobs = {}
    /\ running = FALSE

NextMisfire ==
    \/ TimePasses
    \/ StartAt
    \/ ShutdownAt
    \/ \E c \in Configs : ProcessJobs(c)

SpecMisfire == InitMisfire /\ [][NextMisfire]_vars

(***************************************************************************)
(* Properties of the reconciliation pass.                                  *)
(***************************************************************************)

Finished(s) == run[s].pc = "done"
NothingDone(s) ==
    /\ run[s].created = 0 /\ run[s].updated = 0 /\ run[s].deleted = 0
    /\ run[s].calls = 0

LiveNatives(cal) ==
    {id \in 1..Len(events) :
        events[id].cal = cal /\ ~IsCopy(events[id]) /\ Live(events[id])}
LiveCopies(cal) ==
    {id \in 1..Len(events) :
        events[id].cal = cal /\ IsCopy(events[id]) /\ Live(events[id])}

\* What a copy of src must show under configuration c.
Shows(copy, src, c) ==
    /\ copy.summary = (IF privacy[c] THEN PlaceholderText(c) ELSE src.summary)
    /\ copy.description = (IF privacy[c] THEN "" ELSE src.description)
    /\ copy.location = (IF privacy[c] THEN "" ELSE src.location)
    /\ copy.start = src.start /\ copy.end = src.end
    /\ copy.recurrence = src.recurrence
    /\ copy.transparency = src.transparency
    /\ copy.visibility = src.visibility
    /\ copy.colorId = src.colorId

Converged(c) ==
    /\ \A id \in LiveNatives(SourceCal(c)) :
          \E k \in LiveCopies(DestCal(c)) : events[k].source_id = id
    /\ \A k \in LiveCopies(DestCal(c)) :
          /\ events[k].source_id \in LiveNatives(SourceCal(c))
          /\ Shows(events[k], events[events[k].source_id], c)
          /\ \A j \in LiveCopies(DestCal(c)) :
                events[j].source_id = events[k].source_id => j = k

\* C2: once a pass has succeeded with no failed remote call and no user
\* operation since it began, the live copies in the destination are exactly
\* one per live natively authored source event, each showing its source's
\* comparable fields (the redacted ones under privacy).
C2_Convergence ==
    \A s \in Slots :
        /\ Finished(s) /\ run[s].log = "success"
        /\ run[s].tolerated = 0 /\ run[s].undisturbed = "all"
        => Converged(run[s].cfg)

\* Creates, a rename and a cancellation have happened on a source calendar
\* and a later pass has converged on them.
C2_Witness ==
    \E s \in Slots :
        /\ Finished(s) /\ run[s].log = "success"
        /\ run[s].tolerated = 0 /\ run[s].undisturbed = "all"
        /\ run[s].updated + run[s].deleted > 0
        /\ edits > 0

NativeCount == Cardinality({id \in 1..Len(events) : ~IsCopy(events[id])})
LiveIn(cal) ==
    {id \in 1..Len(events) : events[id].cal = cal /\ Live(events[id])}

\* C3: every event the engine wrote carries the sentinel; no remote call and
\* no mapping row is ever made for a source event that carries it, so no copy
\* is a copy of a copy; each calendar's live events number at most the
\* natively authored events of both calendars.
C3_LoopFreedom ==
    /\ [](/\ \A id \in 1..Len(events) :
               events[id].source_id # NoId =>
                   /\ IsCopy(events[id])
                   /\ ~IsCopy(events[events[id].source_id])
          /\ \A m \in mappings : ~IsCopy(events[m.source_event_id])
          /\ \A cal \in Cals : Cardinality(LiveIn(cal)) <= NativeCount)
    /\ [][\A s \in Slots :
             /\ InLoop(s)
             /\ \/ run'[s].calls > run[s].calls
                \/ run'[s].new_rows # run[s].new_rows
                \/ run'[s].bulk_deleted # run[s].bulk_deleted
             => ~IsCopy(Src(s))]_vars

\* Both directions have run, each calendar holds a live copy from the other,
\* so one of the two runs listed a copy among its source events.
C3_Witness ==
    /\ \A c \in Configs : Finished(<<c, "manual">>)
                          /\ run[<<c, "manual">>].log = "success"
    /\ \A cal \in Cals : LiveCopies(cal) # {}

\* C5: every insert, update or recreate made for a configuration with
\* privacy enabled writes an event whose start and end are the source's,
\* whose summary is the placeholder, whose description and location are
\* empty and which has no attendees.
C5_Privacy ==
    [][\A s \in Slots : \A id \in 1..Len(events') :
          /\ run'[s].calls > run[s].calls
          /\ privacy[run[s].cfg]
          /\ (id > Len(events) \/ events'[id] # events[id])
          /\ events'[id].status # "cancelled"
          => /\ events'[id].start = Src(s).start
             /\ events'[id].end = Src(s).end
             /\ events'[id].summary = PlaceholderText(run[s].cfg)
             /\ events'[id].description = ""
             /\ events'[id].location = ""
             /\ events'[id].attendees = None]_vars

\* The privacy configuration has inserted a copy and later updated one.
C5_Witness ==
    \E s \in Slots :
        /\ privacy[run[s].cfg] /\ run[s].updated > 0
        /\ \E id \in 1..Len(events) :
              /\ events[id].privacy_mode = "true"
              /\ events[id].sync_config_id = run[s].cfg


\* C7: the mapping store holds at most one row per (configuration, source
\* event), and no run fails because it tried to add a second row for a pair
\* that already has one.
C7_Uniqueness ==
    /\ \A m \in mappings : \A n \in mappings : SameKey(m, n) => m = n
    /\ \A s \in Slots : run[s].error # "IntegrityError"

\* C8: a run that ends having recreated the copy of a live source event
\* whose previous copy was deleted on the destination side while its mapping
\* row still existed completes successfully with created = 1, and then the
\* single mapping row of that source event points at the new copy.
C8_Recreation ==
    [][\A s \in Slots : \A n \in run[s].new_rows :
          /\ run[s].pc = "loop" /\ run'[s].pc = "done"
          /\ run[s].i > Len(run[s].source_events)
          /\ run[s].created = 1
          /\ \E m \in mappings : SameKey(m, n) /\ IsGone(m.dest_event_id)
          => /\ run'[s].log = "success"
             /\ run'[s].events_created = 1
             /\ \A m \in mappings' : SameKey(m, n) => m = n
             /\ Live(events'[n.source_event_id])]_vars

\* C9: the mapping table changes only in a step that also records the run's
\* counts (the run record turns to success), and every persisted mapping row
\* references a destination event that exists.
C9_Atomic ==
    /\ [](\A m \in mappings : m.dest_event_id \in 1..Len(events))
    /\ [][mappings' # mappings =>
             \E s \in Slots :
                 /\ run[s].log = "running" /\ run'[s].log = "success"
                 /\ run'[s].events_created = run[s].created
                 /\ run'[s].events_updated = run[s].updated
                 /\ run'[s].events_deleted = run[s].deleted]_vars


\* C4: when a run finds a conflict (source and destination both changed
\* since the mapping was recorded), the copy is left as it is if the stored
\* origin is the destination calendar, and otherwise the source payload is
\* applied.
C4_OriginWins ==
    [][\A s \in Slots :
          /\ InLoop(s) /\ run'[s].pc = "loop" /\ run'[s].i = run[s].i + 1
          /\ LiveSource(s) /\ DestMatch(s).id # NoId
          /\ Mapping(s).sync_config_id # None
          /\ BothModified(Src(s), DestMatch(s), Mapping(s))
          => IF Mapping(s).origin_calendar_id = DestCal(run[s].cfg)
             THEN run'[s].calls = run[s].calls
             ELSE events_differ(Payload(s), DestMatch(s))
                      => run'[s].updated = run[s].updated + 1]_vars

LifeScript == <<"run", "run", "rename", "run", "cancel", "run">>
LifeCounts == <<<<1, 0, 0>>, <<0, 0, 0>>, <<0, 0, 0>>, <<0, 1, 0>>,
                <<0, 0, 0>>, <<0, 0, 1>>>>
OnScript ==
    /\ Len(hist) <= Len(LifeScript)
    /\ \A k \in 1..Len(hist) : hist[k].op = LifeScript[k]

\* C6: from one live source event, an empty destination and an empty mapping
\* store, the runs of the sequence run, run, rename, run, cancel, run return
\* {1,0,0}, {0,0,0}, {0,1,0}, {0,0,1}; the source event has a mapping row
\* after the first run and none after the fourth.
C6_Lifecycle ==
    OnScript =>
        \A k \in 1..Len(hist) :
            /\ <<hist[k].created, hist[k].updated, hist[k].deleted>>
                   = LifeCounts[k]
            /\ k = 1 => hist[k].mapped
            /\ k = 6 => ~hist[k].mapped

\* The whole sequence has been played.
C6_Witness == OnScript /\ Len(hist) = Len(LifeScript)

\* C10: at no time are two reconciliations of the same configuration
\* executing.
C10_MutualExclusion ==
    \A c \in Configs :
        ~(Active(<<c, "manual">>) /\ Active(<<c, "scheduled">>))


\* C11: while the forward and the reverse run of the pair interleave, each
\* natively authored event has at most one live copy in the opposite
\* calendar, no copy is a copy of a copy, and no step of a run changes an
\* event natively authored in its destination calendar.
C11_ConcurrentDirections ==
    /\ [](/\ \A id \in 1..Len(events) :
               ~IsCopy(events[id]) =>
                   Cardinality({k \in LiveCopies(OtherCal(events[id].cal)) :
                                   events[k].source_id = id}) <= 1
          /\ \A k \in 1..Len(events) :
               events[k].source_id # NoId =>
                   ~IsCopy(events[events[k].source_id]))
    /\ [][\A s \in Slots : \A id \in 1..Len(events) :
             /\ run'[s].calls > run[s].calls
             /\ ~IsCopy(events[id])
             => events'[id] = events[id]]_vars

\* Both directions are in their loops at once and each calendar holds a
\* copy from the other.
C11_Witness ==
    /\ \A c \in Configs : run[<<c, "manual">>].pc = "loop"
    /\ \A cal \in Cals : LiveCopies(cal) # {}


\* C12: an iteration on a cancelled source event with a live match makes one
\* delete call for the match, counts it deleted whether the call succeeds or
\* is answered 404/410, removes the pair's mapping row and goes on to the
\* next event; on a cancelled source event without match it does nothing.
C12_Cancellation ==
    [][\A s \in Slots :
          /\ InLoop(s) /\ ~should_skip_event(Src(s))
          /\ Src(s).status = "cancelled"
          /\ run'[s].pc = "loop" /\ run'[s].i = run[s].i + 1
          => IF DestMatch(s).id # NoId
             THEN /\ run'[s].calls = run[s].calls + 1
                  /\ run'[s].deleted = run[s].deleted + 1
                  /\ run'[s].created = run[s].created
                  /\ run'[s].updated = run[s].updated
                  /\ events'[DestMatch(s).id].status = "cancelled"
                  /\ \A id \in 1..Len(events) :
                        id # DestMatch(s).id => events'[id] = events[id]
                  /\ Len(events') = Len(events)
                  /\ QueryMapping(run'[s], Src(s).id) = NoMapping
             ELSE /\ events' = events /\ mappings' = mappings
                  /\ run'[s] = Continue(run[s])]_vars

\* A run has deleted the copy of a cancelled source event and gone on.
C12_Witness ==
    \E s \in Slots :
        /\ run[s].pc = "loop" /\ run[s].deleted > 0
        /\ run[s].bulk_deleted # {}
        /\ \E m \in mappings :
              /\ m.sync_config_id = run[s].cfg
              /\ m.source_event_id \in run[s].bulk_deleted


\* C13: a run in which an update was answered 404/410 and the copy was
\* inserted afresh counted it as created, and ends with exactly one mapping
\* row for the source event, pointing at the new copy.
C13_RecreateOnGhost ==
    [][\A s \in Slots : \A n \in run[s].new_rows :
          /\ run[s].pc = "loop" /\ run'[s].pc = "done"
          /\ run[s].i > Len(run[s].source_events)
          /\ n.source_event_id \in run[s].recreated
          => /\ run[s].created >= 1
             /\ n \in mappings'
             /\ \A m \in mappings' : SameKey(m, n) => m = n
             /\ events'[n.dest_event_id].source_id = n.source_event_id
             /\ Live(events'[n.dest_event_id])]_vars


\* C14: once a task has returned, its run record is either 'success' with the
\* run's counts or 'failed' with an error message; a run in which the engine
\* raised is 'failed', never left 'running'.
C14_FailureRecorded ==
    \A s \in Slots :
        run[s].pc = "done" =>
            /\ \/ /\ run[s].log = "success"
                  /\ run[s].events_created = run[s].created
                  /\ run[s].events_updated = run[s].updated
                  /\ run[s].events_deleted = run[s].deleted
               \/ /\ run[s].log = "failed"
                  /\ run[s].error # None
            /\ run[s].error # None => run[s].log = "failed"


\* C15: while the credentials of the source or of the destination account
\* are absent, no step of the system touches a calendar or the mapping store
\* and no reconciliation starts; a refused trigger request leaves every run
\* record as it was, and a cron fire leaves a 'failed' run record with the
\* message 'OAuth credentials not found' and not a single remote call.
C15_ConfigErrors ==
    [][tokens # AccountTypes /\ edits' = edits
       => /\ events' = events /\ mappings' = mappings
          /\ \A s \in Slots : run'[s].pc \notin {"fetch_src", "fetch_dst", "loop"}
          /\ refused' # refused => run' = run
          /\ \A c \in Configs :
                /\ run'[<<c, "manual">>] = run[<<c, "manual">>]
                /\ run'[<<c, "scheduled">>] # run[<<c, "scheduled">>]
                   => /\ run'[<<c, "scheduled">>].pc = "done"
                      /\ run'[<<c, "scheduled">>].log = "failed"
                      /\ run'[<<c, "scheduled">>].error
                            = "OAuth credentials not found"
                      /\ run'[<<c, "scheduled">>].calls = 0]_vars

C15_Witness ==
    /\ tokens # AccountTypes /\ tokens # {}
    /\ refused > 0
    /\ \E c \in Configs :
          run[<<c, "scheduled">>].error = "OAuth credentials not found"


\* C16: two runs of c1 made from the same source calendar, destination
\* calendar and mapping store, one processing the source events as fetched
\* and one processing them in any other order, leave the same destination
\* calendar and mapping store and return the same counts.
C16_OrderIndependence ==
    Len(hist) = 3 /\ hist[3].done => hist[3].result = hist[2].result

C16_Witness ==
    /\ Len(hist) = 3 /\ hist[3].done
    /\ hist[3].order # hist[2].order
    /\ hist[3].result.created > 0
    /\ hist[3].result.updated > 0 \/ hist[3].result.deleted > 0


\* C17: a step in which the engine updates an existing destination copy
\* leaves the copy's shared properties outside the engine's reserved keys
\* as they were.
C17_MetadataAdditive ==
    [][\A s \in Slots :
          /\ InLoop(s)
          /\ run'[s].updated = run[s].updated + 1
          => \A id \in 1..Len(events) :
                events[id].cal = DestCal(run[s].cfg)
                => events'[id].custom = events[id].custom]_vars


\* C18: while the scheduler runs, job sync_<id> is registered if and only
\* if configuration <id> exists, is active, has auto-sync enabled and has a
\* non-empty cron expression.
Eligible(cfg) ==
    /\ cfg # NoConfig /\ cfg.is_active /\ cfg.auto_sync_enabled
    /\ Truthy(cfg.auto_sync_cron)

C18_JobTable ==
    running => \A c \in Configs : HasJob(c) <=> Eligible(config[c])


\* C19: at most one job exists per configuration id, and the job of a
\* configuration carries the cron expression and the timezone of the most
\* recent add_job call for that id.
C19_Registration ==
    \A c \in Configs :
        /\ Cardinality({j \in jobs : j.id = JobId(c)}) <= 1
        /\ \A j \in jobs :
              j.id = JobId(c) => /\ j.cron = hist[c].last.cron
                                 /\ j.timezone = hist[c].last.timezone

\* C19 (amended): at most one job exists per configuration id, and the job
\* of a configuration carries the cron expression of the most recent add_job
\* call for that id that returned, with that call's timezone, or UTC when
\* that timezone is unknown; a call whose expression from_crontab refuses
\* raises and is not such a call.
C19_ReturnedRegistration ==
    \A c \in Configs :
        /\ Cardinality({j \in jobs : j.id = JobId(c)}) <= 1
        /\ hist[c].returned.n > 0 => hist[c].returned.cron \in {Hourly, Daily}
        /\ \A j \in jobs :
              j.id = JobId(c)
              => /\ hist[c].returned.n > 0
                 /\ j.cron = hist[c].returned.cron
                 /\ j.timezone = IF hist[c].returned.timezone = UnknownTz
                                 THEN "UTC"
                                 ELSE hist[c].returned.timezone

C19_Witness ==
    \E c \in Configs :
        /\ HasJob(c)
        /\ hist[c].returned.n >= 2
        /\ hist[c].returned.timezone = UnknownTz
        /\ hist[c].last.n > hist[c].returned.n

\* C20: when the process has started and load_all_jobs_from_db has run, the
\* registered jobs are exactly those of the stored configurations that are
\* active, have auto-sync enabled and have a non-empty cron expression.
C20_Rehydration ==
    [][~running /\ running'
       => \A c \in Configs :
             (\E j \in jobs' : j.id = JobId(c)) <=> Eligible(config[c])]_vars

\* C21: a create or update request that changes a configuration row carried
\* a cron expression the scheduler can build a trigger from (or none) and a
\* known timezone: a request with an invalid one is refused before it
\* changes anything.
C21_ValidationAtRegistration ==
    [][running /\ running'
       => \A c \in Configs :
             config'[c] # config[c] /\ config'[c] # NoConfig
             => /\ Truthy(config'[c].auto_sync_cron)
                   => config'[c].auto_sync_cron \in {Hourly, Daily}
                /\ config'[c].auto_sync_timezone \in Tzs \ {UnknownTz}]_vars

\* C22: an add_job call with a cron expression from_crontab accepts and a
\* timezone pytz does not know returns, and leaves exactly one job for the
\* configuration, with that expression and timezone UTC; the jobs of the
\* other configurations stay as they were.
C22_TimezoneFallback ==
    [][\A c \in Configs :
          /\ hist'[c].last.n > hist[c].last.n
          /\ hist'[c].last.cron \in {Hourly, Daily}
          /\ hist'[c].last.timezone = UnknownTz
          => /\ hist'[c].returned = hist'[c].last
             /\ {j \in jobs' : j.id = JobId(c)}
                   = {Job(c, hist'[c].last.cron, "UTC")}
             /\ {j \in jobs' : j.id # JobId(c)}
                   = {j \in jobs : j.id # JobId(c)}]_vars

C22_Witness ==
    \E c \in Configs :
        /\ hist[c].last.timezone = UnknownTz
        /\ hist[c].last.cron = Daily
        /\ hist[c].last.n >= 2
        /\ jobs = {Job(c, Daily, "UTC"), Job(PairedConfig(c), Hourly, "Europe/Berlin")}

\* C23: a remove_job call returns, whether or not the scheduler is running
\* and whether or not the id has a job; after it the id has no job, and the
\* jobs of the other ids are the ones there were before; a call on a
\* scheduler that is not running changes nothing.
C23_RemoveJobTotal ==
    [][\A c \in Configs :
          hist'[c].removes > hist[c].removes
          => /\ ~ \E j \in jobs' : j.id = JobId(c)
             /\ {j \in jobs' : j.id # JobId(c)}
                   = {j \in jobs : j.id # JobId(c)}
             /\ running' = running
             /\ ~running => jobs' = jobs]_vars

C23_Witness ==
    \E c \in Configs :
        /\ hist[c].removes > 0
        /\ hist[c].last = NoCall
        /\ running
        /\ jobs = {Job(PairedConfig(c), Hourly, "UTC")}

\* C24: of the fire times of a job that lay before the start of the running
\* process, at most one has been executed since that start, and no fire is
\* executed more than 300 seconds after its time.
C24_Misfire ==
    /\ \A c \in Configs :
          Cardinality({f \in hist.fires :
                          /\ f.config = c /\ f.missed_down
                          /\ f.at >= hist.up}) <= 1
    /\ \A f \in hist.fires : f.at - f.due <= 300

C24_Witness ==
    /\ running
    /\ hist.up > 3600 /\ hist.up < 7200
    /\ ~ \E f \in hist.fires : f.due = 3600
    /\ \E f, g \in hist.fires :
          /\ f.due = 0 /\ f.at < 3600
          /\ g.due = 7200 /\ g.at = 7500

\* C25: the run a cron fire starts is given, as source and as destination
\* credentials, the tokens stored for the two account types at the time of
\* the fire, whatever was stored when the job was registered.
C25_FreshCredentials ==
    [][\A c \in Configs :
          LET s == <<c, "scheduled">>
          IN  ~Active(s) /\ Active(s)'
              => /\ hist'.used[s].source_creds.version
                       = hist.version[hist'.used[s].source_creds.account_type]
                 /\ hist'.used[s].dest_creds.version
                       = hist.version[hist'.used[s].dest_creds.account_type]]_vars

C25_Witness ==
    \E c \in Configs :
        /\ Active(<<c, "scheduled">>)
        /\ hist.registered[c]["source"] = 1
        /\ hist.registered[c]["destination"] = 1
        /\ hist.used[<<c, "scheduled">>].source_creds = Creds("source", 2)
        /\ hist.used[<<c, "scheduled">>].dest_creds = Creds("destination", 2)

\* C28: every run of a bidirectional_b_to_a configuration, started by a cron
\* fire or by a manual trigger, is given the token of the 'destination'
\* account as source credentials and the token of the 'source' account as
\* destination credentials.
C28_SameAssignment ==
    \A s \in Slots :
        Active(s) /\ sync_direction(s[1]) = "bidirectional_b_to_a"
        => /\ hist.used[s].source_creds.account_type = "destination"
           /\ hist.used[s].dest_creds.account_type = "source"

\* C26: whatever configurations were created and deleted, a configuration c
\* whose paired_config_id is d has a partner d that exists, points back to c
\* and has c's destination calendar as source and c's source calendar as
\* destination; so the partner of a deleted configuration has
\* paired_config_id null.
C26_PairInvariant ==
    \A c \in RowIds :
        Exists(c) /\ config[c].paired_config_id # None
        => LET d == config[c].paired_config_id
           IN  /\ Exists(d)
               /\ config[d].paired_config_id = c
               /\ config[d].source_calendar_id = config[c].dest_calendar_id
               /\ config[d].dest_calendar_id = config[c].source_calendar_id

C26_Witness ==
    \E c, d, e \in RowIds :
        /\ Exists(c) /\ Exists(d) /\ Exists(e)
        /\ config[c].sync_direction = "bidirectional_b_to_a"
        /\ config[c].paired_config_id = None
        /\ config[d].paired_config_id = e /\ config[d].source_calendar_id = "B"
        /\ config[e].paired_config_id = d /\ config[e].source_calendar_id = "A"

\* C27: runs do not overlap, users edit source events and delete copies at
\* any time: no calendar ever holds two non-cancelled events that carry the
\* same source_id.
C27_NoDuplicateCopies ==
    \A j, k \in 1..Len(events) :
        /\ events[j].source_id # NoId
        /\ events[j].source_id = events[k].source_id
        /\ events[j].cal = events[k].cal
        /\ events[j].status # "cancelled"
        /\ events[k].status # "cancelled"
        => j = k

C27_Witness ==
    \E j, k \in 1..Len(events) :
        /\ events[j].source_id # NoId
        /\ events[j].source_id = events[k].source_id
        /\ events[j].cal = events[k].cal
        /\ events[j].status = "cancelled"
        /\ events[k].status # "cancelled"
        /\ started >= 3
        /\ \A s \in Slots : ~Active(s)

\* C29: when a run ends in success, every non-cancelled source event
\* without the sentinel that has a non-cancelled copy in the destination
\* calendar has exactly one mapping row of the run's configuration, and that
\* row's dest_event_id is the id of the copy.
C29_MappingsTrackCopies ==
    [][\A s \in Slots :
          run[s].log = "running" /\ run'[s].log = "success"
          => \A x, k \in 1..Len(events') :
                /\ events'[x].cal = SourceCal(s[1])
                /\ events'[x].status # "cancelled"
                /\ ~should_skip_event(events'[x])
                /\ events'[k].cal = DestCal(s[1])
                /\ events'[k].status # "cancelled"
                /\ events'[k].source_id = x
                => /\ \E m \in mappings' :
                         /\ m.sync_config_id = s[1]
                         /\ m.source_event_id = x
                         /\ m.dest_event_id = k
                   /\ \A m, n \in mappings' :
                         /\ m.sync_config_id = s[1] /\ m.source_event_id = x
                         /\ SameKey(m, n)
                         => m = n]_vars

\* C30: at a source event with a destination match that differs from the
\* payload: if a mapping row exists and the source and the destination are
\* both newer than the row records, a conflict is found, and with the
\* destination calendar as stored origin the copy is left as it is; if there
\* is no row, or one of the two sides is not newer, no conflict is found and
\* the payload is written over the copy, whatever the stored origin.
C30_ConflictDetection ==
    [][\A s \in Slots :
          /\ InLoop(s) /\ run'[s].pc = "loop" /\ run'[s].i = run[s].i + 1
          /\ LiveSource(s) /\ DestMatch(s).id # NoId
          /\ ~IsGone(DestMatch(s).id)
          /\ events_differ(Payload(s), DestMatch(s))
          => LET m == Mapping(s)
                 id == DestMatch(s).id
                 conflict == /\ m.sync_config_id # None
                             /\ Src(s).updated > m.source_last_modified
                             /\ DestMatch(s).updated > m.dest_last_modified
             IN  /\ conflict /\ m.origin_calendar_id = DestCal(run[s].cfg)
                    => events' = events
                 /\ ~conflict
                    => events'[id] = Updated(events[id], Payload(s))]_vars

C30_Witness ==
    \E s \in Slots :
        /\ run[s].pc = "loop" /\ run[s].i > 1 /\ run[s].updated > 0
        /\ LET src == run[s].source_events[run[s].i - 1]
               dest_match == dest_map(run[s].dest_events, src.id)
           IN  /\ dest_match.id # NoId
               /\ dest_match.summary # src.summary
               /\ events[dest_match.id].summary = src.summary
               /\ \E m \in mappings :
                     /\ m.sync_config_id = run[s].cfg
                     /\ m.source_event_id = src.id
                     /\ m.origin_calendar_id = DestCal(run[s].cfg)
                     /\ src.updated = m.source_last_modified
                     /\ dest_match.updated > m.dest_last_modified

\* The store holds a conflict for source event x of configuration c that
\* the destination side wins: a mapping row whose origin is not the source
\* calendar, and the source event and its live copy both newer than the row
\* records.
Conflicted(c, x) ==
    /\ x \in 1..Len(events)
    /\ events[x].cal = SourceCal(c) /\ events[x].status # "cancelled"
    /\ \E m \in mappings : \E k \in 1..Len(events) :
          /\ m.sync_config_id = c /\ m.source_event_id = x
          /\ m.origin_calendar_id # SourceCal(c)
          /\ events[k].cal = DestCal(c) /\ events[k].status # "cancelled"
          /\ events[k].source_id = x
          /\ events[x].updated > m.source_last_modified
          /\ events[k].updated > m.dest_last_modified

\* C31: an iteration in which the destination wins the conflict makes no
\* remote call, changes no event and leaves the rows of the session as they
\* are; and while no user edits anything, no step of a run that has seen the
\* calendars as they are (and has not itself written the row in its
\* session) ends a conflict the destination wins, so every later run meets
\* it again.
C31_DestinationWinsFrame ==
    [][/\ \A s \in Slots :
             /\ InLoop(s) /\ run'[s].pc = "loop" /\ run'[s].i = run[s].i + 1
             /\ LiveSource(s) /\ DestMatch(s).id # NoId /\ DestWins(s)
             => /\ events' = events
                /\ mappings' = mappings
                /\ run'[s].calls = run[s].calls
                /\ run'[s].updated = run[s].updated
                /\ run'[s].created = run[s].created
                /\ run'[s].new_rows = run[s].new_rows
                /\ run'[s].dirty_rows = run[s].dirty_rows
                /\ run'[s].deleted_rows = run[s].deleted_rows
       /\ \A c \in Configs : \A x \in 1..Len(events) :
             /\ Conflicted(c, x)
             /\ edits' = edits
             /\ \A s \in Slots :
                   Active(s) => /\ run[s].undisturbed = "all"
                                /\ \A d \in run[s].dirty_rows :
                                      ~(/\ d.sync_config_id = c
                                        /\ d.source_event_id = x)
             => Conflicted(c, x)']_vars

C31_Witness ==
    /\ started = 3
    /\ \A s \in Slots : ~Active(s)
    /\ run[<<"c1", "manual">>].log = "success"
    /\ run[<<"c1", "manual">>].after_clean
    /\ run[<<"c1", "manual">>].events_updated = 0
    /\ \E x \in 1..Len(events) : Conflicted("c1", x)

\* C32: from an empty mapping store, with users who author, rename and
\* cancel events but never write the engine's shared properties, every
\* mapping row records as origin the source calendar of its configuration.
C32_EngineOrigin ==
    \A m \in mappings : m.origin_calendar_id = SourceCal(m.sync_config_id)

C32_Witness ==
    \E m, n \in mappings :
        /\ m.sync_config_id = "c1" /\ m.origin_calendar_id = "A"
        /\ n.sync_config_id = "c2" /\ n.origin_calendar_id = "B"
        /\ \E k \in 1..Len(events) :
              IsCopy(events[k]) /\ events[k].cal = "B"

\* C33: a mapping row that records an origin keeps it: whatever a step does,
\* the row of the same configuration and source event, if there still is
\* one, records the same origin afterwards.
C33_OriginImmutable ==
    [][\A m \in mappings : \A n \in mappings' :
          SameKey(m, n) /\ m.origin_calendar_id # None
          => n.origin_calendar_id = m.origin_calendar_id]_vars

C33_Witness ==
    \E m \in mappings :
        /\ m.origin_calendar_id = "B"
        /\ m.sync_config_id = "c1"
        /\ events[m.source_event_id].updated = m.source_last_modified
        /\ events[m.source_event_id].summary # "Standup"
        /\ run[<<"c1", "manual">>].log = "success"
        /\ run[<<"c1", "manual">>].events_updated > 0
        /\ started >= 2

\* C34: a step of a run (a step that is not a user's) creates or changes
\* events only in the destination calendar of a configuration with a run in
\* progress; the events of its source calendar stay as they are.
C34_SourceReadOnly ==
    [][edits' = edits
       => \A id \in 1..Len(events') :
             id > Len(events) \/ events'[id] # events[id]
             => \E s \in Slots :
                   /\ Active(s)
                   /\ events'[id].cal = DestCal(s[1])
                   /\ events'[id].cal # SourceCal(s[1])]_vars

C34_Witness ==
    /\ started = 2
    /\ \A s \in Slots : ~Active(s)
    /\ events[1] = NativeEvent(1, "A", None, 0)
    /\ \E j, k \in 1..Len(events) :
          /\ events[j].cal = "B" /\ events[j].source_id = 1
          /\ events[j].status = "cancelled"
          /\ events[k].cal = "B" /\ events[k].source_id = 1
          /\ events[k].status # "cancelled"

\* C35: a run updates or deletes a destination event only if the event
\* carries a source_id and that source_id is the id of a source event the
\* run fetched; every other destination event is left as it is.
C35_NativeUntouched ==
    [][edits' = edits
       => \A id \in 1..Len(events) :
             events'[id] # events[id]
             => \E s \in Slots :
                   /\ Active(s)
                   /\ run'[s].calls = run[s].calls + 1
                   /\ events[id].cal = DestCal(s[1])
                   /\ events[id].source_id # NoId
                   /\ \E i \in 1..Len(run[s].source_events) :
                         run[s].source_events[i].id = events[id].source_id]_vars

C35_Witness ==
    \E s \in Slots :
        /\ run[s].pc = "loop"
        /\ run[s].i > Len(run[s].source_events)
        /\ run[s].updated + run[s].deleted > 0
        /\ \E j, k \in 1..Len(run[s].dest_events) :
              /\ run[s].dest_events[j].source_id = NoId
              /\ events[run[s].dest_events[j].id] = run[s].dest_events[j]
              /\ run[s].dest_events[k].source_id # NoId
              /\ run[s].dest_events[k].status # "cancelled"
              /\ \A i \in 1..Len(run[s].source_events) :
                    run[s].source_events[i].id # run[s].dest_events[k].source_id
              /\ events[run[s].dest_events[k].id] = run[s].dest_events[k]

\* C36: a run in which the only failing call was tolerated (an update
\* answered 404/410 whose recreating insert failed too, or an insert answered
\* 404/410) skipped that event and completes successfully.
C36_BadEventTolerated ==
    \A s \in Slots :
        run[s].pc = "done" /\ run[s].tolerated > 0 /\ faults = run[s].tolerated
        => run[s].log = "success"

\* C37: an invocation for a configuration that is missing or inactive when it
\* is made starts nothing: a scheduled fire returns before credentials are
\* resolved and creates no run record, a manual trigger is answered 404 or 400
\* and creates no run record; every run record that is created belongs to a
\* configuration that was stored and active at the invocation.
C37_InactiveNeverRuns ==
    [][/\ hist'.n = hist.n + 1
          /\ (config[hist'.last.cfg] = NoConfig
              \/ ~config[hist'.last.cfg].is_active)
          => /\ run' = run /\ started' = started
             /\ ~hist'.last.resolved
             /\ hist'.last.kind = "scheduled" => hist'.last.answer = "skipped"
             /\ hist'.last.kind = "manual"
                => hist'.last.answer \in {"404", "400"}
       /\ \A s \in Slots :
             started' > started /\ run'[s] # run[s]
             => config[s[1]] # NoConfig /\ config[s[1]].is_active]_vars

C37_Witness ==
    \E c \in Configs :
        /\ hist.last = Invocation("scheduled", c, FALSE, "skipped", FALSE)
        /\ config[c] # NoConfig /\ ~config[c].is_active
        /\ HasCredentials
        /\ run[<<c, "scheduled">>].log = "success"
        /\ started = 1

\* C39: a manual trigger that is accepted creates a run record and starts a
\* reconciliation for the triggered configuration and, exactly when the flag
\* trigger_both_directions is set and the paired configuration exists and is
\* active, one more of each for the paired configuration; without the flag it
\* creates exactly one run record and one reconciliation.
C39_BothDirections ==
    [][/\ hist'.n = hist.n + 1
       /\ hist'.last.kind = "manual" /\ hist'.last.answer = "200"
       => LET c == hist'.last.cfg
              p == PairedConfig(c)
              also == /\ hist'.last.both
                      /\ config[p] # NoConfig /\ config[p].is_active
              expected == {<<c, "manual">>} \cup
                          (IF also THEN {<<p, "manual">>} ELSE {})
          IN  /\ \A s \in Slots :
                    /\ run'[s] # run[s] <=> s \in expected
                    /\ s \in expected
                       => /\ run'[s].pc = "fetch_src"
                          /\ run'[s].log = "running"
                          /\ run'[s].cfg = s[1]
              /\ started' = started + Cardinality(expected)
              /\ ~hist'.last.both => started' = started + 1]_vars

C39_Witness ==
    \E c \in Configs :
        /\ hist.last = Invocation("manual", c, TRUE, "200", TRUE)
        /\ run[<<c, "manual">>].pc = "fetch_src"
        /\ run[<<PairedConfig(c), "manual">>].pc = "fetch_src"
        /\ started = 2

\* The live copies in B, and those of them whose conflict the destination wins.
CopiesInB ==
    {k \in 1..Len(events) :
        /\ events[k].cal = "B" /\ events[k].status # "cancelled"
        /\ events[k].source_id # NoId}

HeldCopies == {k \in CopiesInB : Conflicted("c1", events[k].source_id)}

Redacted(k) ==
    /\ events[k].summary = PlaceholderText("c1")
    /\ events[k].description = ""
    /\ events[k].location = ""

\* The run of c1 that follows the switch, after a clean successful run and
\* with no change on either calendar since that run began.
AfterToggle(n) ==
    /\ Finished(<<"c1", "manual">>)
    /\ run[<<"c1", "manual">>].after_clean
    /\ run[<<"c1", "manual">>].undisturbed = "all"
    /\ hist.toggled /\ hist.at > 0 /\ started = hist.at + n

\* C38 as stated: after privacy mode is enabled, the next run updates every
\* existing destination copy to the redacted payload, one update per copy,
\* no creates, no deletes, and a further run with no changes updates nothing.
C38_PrivacyTogglePropagates ==
    /\ AfterToggle(1)
       => /\ run[<<"c1", "manual">>].log = "success"
          /\ run[<<"c1", "manual">>].events_created = 0
          /\ run[<<"c1", "manual">>].events_deleted = 0
          /\ run[<<"c1", "manual">>].events_updated = Cardinality(CopiesInB)
          /\ \A k \in CopiesInB : Redacted(k)
    /\ AfterToggle(2) => NothingDone(<<"c1", "manual">>)

\* What the run does instead: it updates every existing destination copy
\* that is not held by a conflict the destination wins; the held copies keep
\* their full details.
C38_PrivacyToggleUnlessHeld ==
    /\ AfterToggle(1)
       => /\ run[<<"c1", "manual">>].log = "success"
          /\ run[<<"c1", "manual">>].events_created = 0
          /\ run[<<"c1", "manual">>].events_deleted = 0
          /\ run[<<"c1", "manual">>].events_updated =
                Cardinality(CopiesInB \ HeldCopies)
          /\ \A k \in CopiesInB \ HeldCopies : Redacted(k)
          /\ \A k \in HeldCopies : ~Redacted(k)
    /\ AfterToggle(2) => NothingDone(<<"c1", "manual">>)

\* Without a held copy the switch reaches both copies and the further run
\* is idle.
C38_Witness ==
    /\ AfterToggle(2)
    /\ Cardinality(CopiesInB) = 2
    /\ \A k \in CopiesInB : Redacted(k)
    /\ run[<<"c1", "manual">>].log = "success"

\* C40: start() on a scheduler that is already running leaves it running
\* with the same registered jobs: none lost, none duplicated, none left with
\* a scheduler that remove_job does not reach.
C40_StartIdempotent ==
    [][running /\ hist'.starts = hist.starts + 1
       => /\ running'
          /\ jobs' = jobs
          /\ hist'.orphaned = hist.orphaned]_vars

====
